---- MODULE Spec2Model ----
(***************************************************************************)
(* Workout tracker: the workout composer (CreateWorkoutScreen), the        *)
(* workout detail view with its previous-performance lookup and completion *)
(* gate (WorkoutDetailScreen), and the history aggregation                 *)
(* (WorkoutHistoryScreen), over the relational store of                    *)
(* supabase-schema.sql.                                                    *)
(*                                                                         *)
(* Every `await supabase...` is a suspension point: the handler is split   *)
(* into one action per resumption, and UI events interleave in between.    *)
(* A nullable value is <<>> (null / undefined) or <<v>>.                   *)
(***************************************************************************)
EXTENDS Integers, Sequences, FiniteSets, TLC

VARIABLES
  workouts,           \* table workouts: row id = index
  workout_exercises,  \* table workout_exercises: row id = index
  sets,               \* table sets: row id = index
  clock,              \* the store's NOW()
  workoutName,        \* CreateWorkoutScreen state
  workoutDescription,
  selectedExercises,  \* the draft: array of CreateExerciseForm objects
  loading,
  run,                \* the createWorkout invocation in flight
  alert,              \* the last Alert.alert of the composer
  log,                \* store requests issued by the current/last run
  base,               \* table sizes and draft when the run started
  edits,              \* draft edits made while the run is in flight
  workoutId,          \* WorkoutDetailScreen: route.params.workoutId
  screen,             \* "detail" while the detail screen is mounted, else "away"
  workout,            \* WorkoutDetailScreen state: null or the loaded view
  detailLoading,      \* WorkoutDetailScreen state `loading`
  updating,
  fetch,              \* the fetchWorkoutDetails call in flight
  pending,            \* store calls of the detail handlers in flight
  detailAlert,        \* the last Alert.alert of the detail screen
  calls,              \* handler calls made on the detail screen so far
  previousByExerciseId,  \* WorkoutDetailScreen state: exercise id -> previous sets
  rendered,           \* the progress values of the screen's last render
  filter,             \* WorkoutHistoryScreen state
  historyWorkouts,    \* WorkoutHistoryScreen state `workouts`
  historyLoading,     \* WorkoutHistoryScreen state `loading`
  historyFetches      \* the fetchWorkoutHistory calls in flight, oldest first

storeVars   == <<workouts, workout_exercises, sets, clock>>
composeVars == <<workoutName, workoutDescription, selectedExercises, loading, run, alert, log, base,
                 edits>>
detailVars  == <<workoutId, screen, workout, detailLoading, updating, fetch, pending,
                 detailAlert, calls, previousByExerciseId, rendered>>
historyVars == <<filter, historyWorkouts, historyLoading, historyFetches>>
vars == <<storeVars, composeVars, detailVars, historyVars>>

\* what the composer leaves alone, and what the detail screen leaves alone
offComposer == <<detailVars, historyVars>>
offDetail   == <<composeVars, historyVars>>
offHistory  == <<composeVars, detailVars>>

----------------------------------------------------------------------------
(* Bounds and input domains *)

MaxSets == 2      \* sets of one exercise selection
MaxWorkouts == 1  \* workout rows one composer session may create
MaxRunEdits == 1  \* draft edits made while one createWorkout call is in flight
MaxPending == 2   \* store calls of the detail handlers in flight at once
MaxCalls == 3     \* set edits and completions of one detail session
MaxHistory == 3   \* stored workouts of the lookup and of the history
MaxFetches == 2   \* fetchWorkoutHistory calls in flight at once
MaxTotalSets == 40  \* sets of the workout whose progress is shown

Null == <<>>
Some(v) == <<v>>

ExerciseIds == {"bench", "squat"}
UserId == "u1"
NameInputs == { <<" ">>, <<" ", "A", " ">> }
DescriptionInputs == { <<" ">>, <<"d", " ">> }
RepsTexts == { <<"-", "1">>, <<"x">> }
WeightTexts == { <<"5">> }

----------------------------------------------------------------------------
(* Pure helpers *)

IsSpace(c) == c = " "

RECURSIVE TrimStart(_)
TrimStart(s) ==
  IF s # <<>> /\ IsSpace(Head(s)) THEN TrimStart(Tail(s)) ELSE s

RECURSIVE TrimEnd(_)
TrimEnd(s) ==
  IF s # <<>> /\ IsSpace(s[Len(s)]) THEN TrimEnd(SubSeq(s, 1, Len(s) - 1)) ELSE s

\* String.prototype.trim
Trim(s) == TrimEnd(TrimStart(s))

Digits == <<"0", "1", "2", "3", "4", "5", "6", "7", "8", "9">>
IsDigit(c) == \E d \in 1..10 : Digits[d] = c
DigitVal(c) == (CHOOSE d \in 1..10 : Digits[d] = c) - 1

RECURSIVE ParseDigits(_, _)
ParseDigits(s, acc) ==
  IF s # <<>> /\ IsDigit(Head(s))
    THEN ParseDigits(Tail(s), 10 * acc + DigitVal(Head(s)))
    ELSE acc

\* parseInt / parseFloat on texts without a decimal point: leading blanks,
\* an optional sign, the longest digit prefix; NaN (<<>>) without a digit.
ParseInt(text) ==
  LET t    == TrimStart(text)
      neg  == t # <<>> /\ Head(t) = "-"
      body == IF t # <<>> /\ Head(t) \in {"-", "+"} THEN Tail(t) ELSE t
  IN IF body = <<>> \/ ~IsDigit(Head(body)) THEN Null
     ELSE Some(IF neg THEN 0 - ParseDigits(body, 0) ELSE ParseDigits(body, 0))

\* `x || 0` for a number x: NaN and 0 are falsy
OrZero(x) == IF x = Null \/ x = Some(0) THEN 0 ELSE x[1]

Range(s) == { s[k] : k \in 1..Len(s) }
RemoveAt(s, k) == SubSeq(s, 1, k - 1) \o SubSeq(s, k + 1, Len(s))

----------------------------------------------------------------------------
(* The store: inserts as the schema defines them.  A row's id is its index
   in the table; created_at defaults to NOW(), one value per statement. *)

DefaultReps == 8

NoAlert == [kind |-> "None", message |-> <<>>]
ErrorAlert(message) == [kind |-> "Error", message |-> message]
SuccessAlert(message) == [kind |-> "Success", message |-> message]

\* the error object the client returns for a rejected statement
StoreError(table, n) == [message |-> <<"store", table, n>>]

\* the errors an insert of createWorkout can come back with: the message is
\* the client's, the same for every table when the request did not get through
InsertErrors == { [message |-> <<"Network request failed">>],
                  [message |-> <<"new row violates row-level security policy">>] }

WorkoutRow(req) ==
  [id |-> Len(workouts) + 1, user_id |-> req.user_id, name |-> req.name,
   description |-> req.description,
   created_at |-> clock, completed_at |-> Null]

WorkoutExerciseRow(req) ==
  [id |-> Len(workout_exercises) + 1, workout_id |-> req.workout_id,
   exercise_id |-> req.exercise_id, order |-> req.order, created_at |-> clock]

\* UNIQUE(workout_id, exercise_id)
WorkoutExerciseAccepted(req) ==
  \A k \in 1..Len(workout_exercises) :
     ~(workout_exercises[k].workout_id = req.workout_id
       /\ workout_exercises[k].exercise_id = req.exercise_id)

\* one INSERT statement for the whole batch: ids in payload order, one created_at
SetRows(req) ==
  [k \in 1..Len(req) |->
     [id |-> Len(sets) + k, workout_exercise_id |-> req[k].workout_exercise_id,
      weight |-> req[k].weight, reps |-> req[k].reps,
      completed |-> req[k].completed, created_at |-> clock]]

----------------------------------------------------------------------------
(* CreateWorkoutScreen: the draft.

   selectedExercises is an array of form objects.  addSetToExercise,
   removeSetFromExercise and updateSet copy the array but change the form
   object in place, so an array captured earlier (by a createWorkout call in
   flight) sees the change; addExerciseToWorkout and removeExerciseFromWorkout
   build a new array and leave the captured one as it was.  A form is
   reachable from the draft under its exercise_id (a selected exercise cannot
   be selected again), so a captured reference is kept as that exercise_id
   while the form is in the draft (live), and as the form's last value once
   the form has been removed from the draft, when nothing can change it any
   more.  *)

IdleRun == [pc |-> "idle", exercises |-> <<>>, i |-> 0,
            workoutData |-> Null, weData |-> Null, req |-> <<>>]

\* The success dialog's only button navigates Home: the screen takes no more
\* input.  A session is followed until the run that creates the last of its
\* MaxWorkouts workout rows has ended.
ComposerOpen ==
  /\ alert.kind # "Success"
  /\ ~(run.pc = "idle" /\ Len(workouts) >= MaxWorkouts)

\* a draft edit: counted while a run is in flight
DraftEdit ==
  /\ ComposerOpen
  /\ run.pc = "idle" \/ edits < MaxRunEdits
  /\ edits' = IF run.pc = "idle" THEN 0 ELSE edits + 1

isSelected(e) ==
  \E k \in 1..Len(selectedExercises) : selectedExercises[k].exercise_id = e

DefaultSet == [weight |-> Null, reps |-> DefaultReps]

\* a reference to the form at position k of the draft
RefTo(k) == [exercise_id |-> selectedExercises[k].exercise_id, live |-> TRUE, sets |-> <<>>]

\* the form a captured reference points to
Deref(ref) ==
  IF ref.live
    THEN selectedExercises[CHOOSE k \in 1..Len(selectedExercises) :
                              selectedExercises[k].exercise_id = ref.exercise_id]
    ELSE [exercise_id |-> ref.exercise_id, sets |-> ref.sets]

\* the captured array after the form of exercise e left the draft
Detach(refs, e) ==
  [k \in 1..Len(refs) |->
     IF refs[k].live /\ refs[k].exercise_id = e
       THEN [exercise_id |-> e, live |-> FALSE, sets |-> Deref(refs[k]).sets]
       ELSE refs[k]]

\* addExerciseToWorkout reachable for an exercise that is selected already
\* (renderExercise without `!isSelected &&` and `disabled`)
addExerciseToWorkoutAgain(e) ==
  /\ DraftEdit
  /\ Len(selectedExercises) < Cardinality(ExerciseIds)
  /\ selectedExercises' =
       Append(selectedExercises, [exercise_id |-> e, sets |-> <<DefaultSet>>])
  /\ UNCHANGED <<storeVars, workoutName, workoutDescription, loading, run, alert, log, base>>
  /\ UNCHANGED offComposer

addExerciseToWorkout(e) ==
  /\ DraftEdit
  /\ ~isSelected(e)
  /\ selectedExercises' =
       Append(selectedExercises, [exercise_id |-> e, sets |-> <<DefaultSet>>])
  /\ UNCHANGED <<storeVars, workoutName, workoutDescription, loading, run, alert, log, base>>
  /\ UNCHANGED offComposer

removeExerciseFromWorkout(index) ==
  /\ DraftEdit
  /\ index \in 1..Len(selectedExercises)
  /\ selectedExercises' = RemoveAt(selectedExercises, index)
  /\ run' = [run EXCEPT !.exercises = Detach(@, selectedExercises[index].exercise_id)]
  /\ UNCHANGED <<storeVars, workoutName, workoutDescription, loading, alert, log, base>>
  /\ UNCHANGED offComposer

addSetToExercise(exerciseIndex) ==
  /\ DraftEdit
  /\ exerciseIndex \in 1..Len(selectedExercises)
  /\ Len(selectedExercises[exerciseIndex].sets) < MaxSets
  /\ selectedExercises' =
       [selectedExercises EXCEPT ![exerciseIndex].sets = Append(@, DefaultSet)]
  /\ UNCHANGED <<storeVars, workoutName, workoutDescription, loading, run, alert, log, base>>
  /\ UNCHANGED offComposer

removeSetFromExercise(exerciseIndex, setIndex) ==
  /\ DraftEdit
  /\ exerciseIndex \in 1..Len(selectedExercises)
  /\ setIndex \in 1..Len(selectedExercises[exerciseIndex].sets)
  /\ selectedExercises' =
       [selectedExercises EXCEPT ![exerciseIndex].sets = RemoveAt(@, setIndex)]
  /\ UNCHANGED <<storeVars, workoutName, workoutDescription, loading, run, alert, log, base>>
  /\ UNCHANGED offComposer

updateSet(exerciseIndex, setIndex, field, value) ==
  /\ DraftEdit
  /\ exerciseIndex \in 1..Len(selectedExercises)
  /\ setIndex \in 1..Len(selectedExercises[exerciseIndex].sets)
  /\ selectedExercises' =
       [selectedExercises EXCEPT ![exerciseIndex].sets[setIndex] =
          IF field = "weight" THEN [@ EXCEPT !.weight = Some(value)]
                              ELSE [@ EXCEPT !.reps = value]]
  /\ UNCHANGED <<storeVars, workoutName, workoutDescription, loading, run, alert, log, base>>
  /\ UNCHANGED offComposer

setWorkoutName(text) ==
  /\ ComposerOpen
  /\ workoutName' = text
  /\ UNCHANGED <<storeVars, workoutDescription, selectedExercises, loading, run,
               alert, log, base, edits>>
  /\ UNCHANGED offComposer

setWorkoutDescription(text) ==
  /\ ComposerOpen
  /\ workoutDescription' = text
  /\ UNCHANGED <<storeVars, workoutName, selectedExercises, loading, run,
               alert, log, base, edits>>
  /\ UNCHANGED offComposer

----------------------------------------------------------------------------
(* CreateWorkoutScreen.createWorkout: one action per resumption *)

TableSizes == [workouts |-> Len(workouts),
               workout_exercises |-> Len(workout_exercises), sets |-> Len(sets)]

\* lines 120-132: the loop head issues the junction insert for index i (0-based)
IssueWorkoutExercise(r, i) ==
  [r EXCEPT !.pc = "workout_exercises", !.i = i,
            !.req = [workout_id |-> r.workoutData[1],
                     exercise_id |-> r.exercises[i + 1].exercise_id,
                     order |-> i]]

\* RunFails without the finally of lines 159-161: loading is cleared on the
\* success path only
RunFailsBusy(error) ==
  /\ alert' = ErrorAlert(error.message)
  /\ UNCHANGED loading
  /\ run' = IdleRun
  /\ edits' = 0
  /\ log' = Append(log, [table |-> run.pc, error |-> Some(error)])

\* lines 157-161: catch and finally
RunFails(error) ==
  /\ alert' = ErrorAlert(error.message)
  /\ loading' = FALSE
  /\ run' = IdleRun
  /\ edits' = 0
  /\ log' = Append(log, [table |-> run.pc, error |-> Some(error)])

\* createWorkout without the name check of lines 94-97
createWorkoutUnnamed ==
  /\ ComposerOpen
  /\ ~loading
  /\ IF Len(selectedExercises) = 0
       THEN /\ alert' = ErrorAlert(<<"Please add at least one exercise">>)
            /\ UNCHANGED <<loading, run, log, base>>
       ELSE /\ Len(workouts) < MaxWorkouts
            /\ loading' = TRUE
            /\ alert' = NoAlert
            /\ log' = <<>>
            /\ base' = [sizes |-> TableSizes, draft |-> selectedExercises]
            /\ run' = [IdleRun EXCEPT
                         !.pc = "workouts",
                         !.exercises = [k \in 1..Len(selectedExercises) |-> RefTo(k)],
                         !.req = [name |-> Trim(workoutName),
                                  description |-> IF Trim(workoutDescription) # <<>>
                                                    THEN Some(Trim(workoutDescription))
                                                    ELSE Null,
                                  user_id |-> UserId]]
  /\ UNCHANGED <<storeVars, workoutName, workoutDescription, selectedExercises, edits>>
  /\ UNCHANGED offComposer

\* createWorkout with a button that is not disabled while loading (the
\* footer of lines 281-291 without `disabled={loading}`)
createWorkoutReentrant ==
  /\ ComposerOpen
  /\ IF Trim(workoutName) = <<>>
       THEN /\ alert' = ErrorAlert(<<"Please enter a workout name">>)
            /\ UNCHANGED <<loading, run, log, base>>
       ELSE IF Len(selectedExercises) = 0
       THEN /\ alert' = ErrorAlert(<<"Please add at least one exercise">>)
            /\ UNCHANGED <<loading, run, log, base>>
       ELSE /\ Len(workouts) < MaxWorkouts
            /\ loading' = TRUE
            /\ alert' = NoAlert
            /\ log' = <<>>
            /\ base' = [sizes |-> TableSizes, draft |-> selectedExercises]
            /\ run' = [IdleRun EXCEPT
                         !.pc = "workouts",
                         !.exercises = [k \in 1..Len(selectedExercises) |-> RefTo(k)],
                         !.req = [name |-> Trim(workoutName),
                                  description |-> IF Trim(workoutDescription) # <<>>
                                                    THEN Some(Trim(workoutDescription))
                                                    ELSE Null,
                                  user_id |-> UserId]]
  /\ UNCHANGED <<storeVars, workoutName, workoutDescription, selectedExercises, edits>>
  /\ UNCHANGED offComposer

\* lines 93-115: validation, then the workout insert is issued
createWorkout ==
  /\ ComposerOpen
  /\ ~loading
  /\ IF Trim(workoutName) = <<>>
       THEN /\ alert' = ErrorAlert(<<"Please enter a workout name">>)
            /\ UNCHANGED <<loading, run, log, base>>
       ELSE IF Len(selectedExercises) = 0
       THEN /\ alert' = ErrorAlert(<<"Please add at least one exercise">>)
            /\ UNCHANGED <<loading, run, log, base>>
       ELSE /\ Len(workouts) < MaxWorkouts
            /\ loading' = TRUE
            /\ alert' = NoAlert
            /\ log' = <<>>
            /\ base' = [sizes |-> TableSizes, draft |-> selectedExercises]
            /\ run' = [IdleRun EXCEPT
                         !.pc = "workouts",
                         !.exercises = [k \in 1..Len(selectedExercises) |-> RefTo(k)],
                         !.req = [name |-> Trim(workoutName),
                                  description |-> IF Trim(workoutDescription) # <<>>
                                                    THEN Some(Trim(workoutDescription))
                                                    ELSE Null,
                                  user_id |-> UserId]]
  /\ UNCHANGED <<storeVars, workoutName, workoutDescription, selectedExercises, edits>>
  /\ UNCHANGED offComposer

\* lines 107-132: the workout insert returns; on success the loop starts
workoutInsertReturns(ok) ==
  /\ run.pc = "workouts"
  /\ IF ~ok
       THEN /\ \E error \in InsertErrors : RunFails(error)
            /\ UNCHANGED storeVars
       ELSE /\ workouts' = Append(workouts, WorkoutRow(run.req))
            /\ clock' = clock + 1
            /\ run' = IssueWorkoutExercise(
                        [run EXCEPT !.workoutData = Some(Len(workouts) + 1)], 0)
            /\ log' = Append(log, [table |-> "workouts", error |-> Null])
            /\ UNCHANGED <<workout_exercises, sets, alert, loading, edits>>
  /\ UNCHANGED <<workoutName, workoutDescription, selectedExercises, base>>
  /\ UNCHANGED offComposer

\* lines 137-142: the sets of the form as they are when the map runs
setsToInsert(form, workoutExerciseId) ==
  [k \in 1..Len(form.sets) |->
     [workout_exercise_id |-> workoutExerciseId, weight |-> form.sets[k].weight,
      reps |-> form.sets[k].reps, completed |-> FALSE]]

\* lines 124-146: the junction insert returns; the batch insert is issued
workoutExerciseInsertReturns(ok) ==
  /\ run.pc = "workout_exercises"
  /\ IF ~(ok /\ WorkoutExerciseAccepted(run.req))
       THEN /\ \E error \in InsertErrors : RunFails(error)
            /\ UNCHANGED storeVars
       ELSE /\ workout_exercises' = Append(workout_exercises, WorkoutExerciseRow(run.req))
            /\ clock' = clock + 1
            /\ run' = [run EXCEPT
                         !.pc = "sets",
                         !.weData = Some(Len(workout_exercises) + 1),
                         !.req = setsToInsert(Deref(run.exercises[run.i + 1]),
                                              Len(workout_exercises) + 1)]
            /\ log' = Append(log, [table |-> "workout_exercises", error |-> Null])
            /\ UNCHANGED <<workouts, sets, alert, loading, edits>>
  /\ UNCHANGED <<workoutName, workoutDescription, selectedExercises, base>>
  /\ UNCHANGED offComposer

\* setsInsertReturns without `if (setsError) throw setsError`: a rejected
\* batch is ignored and the loop goes on
setsInsertReturnsUnchecked(ok) ==
  /\ run.pc = "sets"
  /\ sets' = IF ok THEN sets \o SetRows(run.req) ELSE sets
  /\ clock' = IF ok THEN clock + 1 ELSE clock
  /\ \E error \in InsertErrors :
       log' = Append(log, [table |-> "sets",
                           error |-> IF ok THEN Null ELSE Some(error)])
  /\ IF run.i + 1 < Len(run.exercises)
       THEN /\ run' = IssueWorkoutExercise(run, run.i + 1)
            /\ UNCHANGED <<alert, loading, edits>>
       ELSE /\ alert' = SuccessAlert(<<"Workout created successfully!">>)
            /\ loading' = FALSE
            /\ run' = IdleRun
            /\ edits' = 0
  /\ UNCHANGED <<workouts, workout_exercises, workoutName, workoutDescription,
               selectedExercises, base>>
  /\ UNCHANGED offComposer

\* setsInsertReturns with the next selection's batch issued at once under
\* the junction row at hand, without a junction insert of its own
setsInsertReturnsSkipping(ok) ==
  /\ run.pc = "sets"
  /\ IF ~ok
       THEN /\ \E error \in InsertErrors : RunFails(error)
            /\ UNCHANGED storeVars
       ELSE /\ sets' = sets \o SetRows(run.req)
            /\ clock' = clock + 1
            /\ log' = Append(log, [table |-> "sets", error |-> Null])
            /\ IF run.i + 1 < Len(run.exercises)
                 THEN /\ run' = [run EXCEPT
                                   !.i = run.i + 1,
                                   !.req = setsToInsert(Deref(run.exercises[run.i + 2]),
                                                        run.weData[1])]
                      /\ UNCHANGED <<alert, loading, edits>>
                 ELSE /\ alert' = SuccessAlert(<<"Workout created successfully!">>)
                      /\ loading' = FALSE
                      /\ run' = IdleRun
                      /\ edits' = 0
            /\ UNCHANGED <<workouts, workout_exercises>>
  /\ UNCHANGED <<workoutName, workoutDescription, selectedExercises, base>>
  /\ UNCHANGED offComposer

\* lines 144-161: the batch insert returns; next selection, or success
setsInsertReturns(ok) ==
  /\ run.pc = "sets"
  /\ IF ~ok
       THEN /\ \E error \in InsertErrors : RunFails(error)
            /\ UNCHANGED storeVars
       ELSE /\ sets' = sets \o SetRows(run.req)
            /\ clock' = clock + 1
            /\ log' = Append(log, [table |-> "sets", error |-> Null])
            /\ IF run.i + 1 < Len(run.exercises)
                 THEN /\ run' = IssueWorkoutExercise(run, run.i + 1)
                      /\ UNCHANGED <<alert, loading, edits>>
                 ELSE /\ alert' = SuccessAlert(<<"Workout created successfully!">>)
                      /\ loading' = FALSE
                      /\ run' = IdleRun
                      /\ edits' = 0
            /\ UNCHANGED <<workouts, workout_exercises>>
  /\ UNCHANGED <<workoutName, workoutDescription, selectedExercises, base>>
  /\ UNCHANGED offComposer

----------------------------------------------------------------------------
(* The composer specification *)

InitStore ==
  /\ workouts = <<>>
  /\ workout_exercises = <<>>
  /\ sets = <<>>
  /\ clock = 1

\* the detail screen is not part of a composer session
\* previousByExerciseId[id] || [] of the initial {}
NoPrevious == [e \in ExerciseIds |-> <<>>]

\* the detail screen before it is opened on workout id
DetailClosed(id) ==
  /\ workoutId = id
  /\ screen = "away"
  /\ workout = Null
  /\ detailLoading = TRUE
  /\ updating = FALSE
  /\ fetch = [pc |-> "idle"]
  /\ pending = {}
  /\ detailAlert = NoAlert
  /\ calls = 0
  /\ previousByExerciseId = NoPrevious
  /\ rendered = Null

DetailUnused == DetailClosed(0)

\* the history screen before it is mounted
HistoryUnused ==
  /\ filter = "all"
  /\ historyWorkouts = <<>>
  /\ historyLoading = TRUE
  /\ historyFetches = <<>>

InitComposer ==
  /\ workoutName = <<>>
  /\ workoutDescription = <<>>
  /\ selectedExercises = <<>>
  /\ loading = FALSE
  /\ run = IdleRun
  /\ alert = NoAlert
  /\ log = <<>>
  /\ base = [sizes |-> [workouts |-> 0, workout_exercises |-> 0, sets |-> 0],
             draft |-> <<>>]
  /\ edits = 0

Init == InitStore /\ InitComposer /\ DetailUnused /\ HistoryUnused

Positions == 1..Cardinality(ExerciseIds)

Next ==
  \/ \E text \in NameInputs : setWorkoutName(text)
  \/ \E text \in DescriptionInputs : setWorkoutDescription(text)
  \/ \E e \in ExerciseIds : addExerciseToWorkout(e)
  \/ \E index \in Positions : removeExerciseFromWorkout(index)
  \/ \E exerciseIndex \in Positions : addSetToExercise(exerciseIndex)
  \/ \E exerciseIndex \in Positions, setIndex \in 1..MaxSets :
        removeSetFromExercise(exerciseIndex, setIndex)
  \/ createWorkout
  \/ \E ok \in BOOLEAN : workoutInsertReturns(ok)
  \/ \E ok \in BOOLEAN : workoutExerciseInsertReturns(ok)
  \/ \E ok \in BOOLEAN : setsInsertReturns(ok)

Spec == Init /\ [][Next]_vars

----------------------------------------------------------------------------
(* Claims about the composer *)

NewWorkoutId == base.sizes.workouts + 1
NewWorkoutExercise(k) == workout_exercises[base.sizes.workout_exercises + k]
SetsUnder(weId) == { j \in 1..Len(sets) : sets[j].workout_exercise_id = weId }
RunSucceeded == alert.kind = "Success"

\* C1: a createWorkout run whose inserts all succeed leaves exactly one new
\* Workout row, one WorkoutExercise row per selection of the submitted draft,
\* with order 0..N-1 in draft order, and under the i-th of them exactly as
\* many Set rows as the i-th selection of the submitted draft has sets, every
\* one with completed = false.
C1_CompositionMatchesDraft ==
  RunSucceeded =>
    /\ Len(workouts) = base.sizes.workouts + 1
    /\ Len(workout_exercises) = base.sizes.workout_exercises + Len(base.draft)
    /\ \A k \in 1..Len(base.draft) :
         /\ NewWorkoutExercise(k).workout_id = NewWorkoutId
         /\ NewWorkoutExercise(k).order = k - 1
         /\ NewWorkoutExercise(k).exercise_id = base.draft[k].exercise_id
         /\ Cardinality(SetsUnder(NewWorkoutExercise(k).id)) = Len(base.draft[k].sets)
    /\ \A j \in (base.sizes.sets + 1)..Len(sets) :
         /\ sets[j].completed = FALSE
         /\ \E k \in 1..Len(base.draft) :
               sets[j].workout_exercise_id = NewWorkoutExercise(k).id

\* the rows of a successful run apart from the number of sets
C1_RowsAndOrder ==
  RunSucceeded =>
    /\ Len(workouts) = base.sizes.workouts + 1
    /\ Len(workout_exercises) = base.sizes.workout_exercises + Len(base.draft)
    /\ \A k \in 1..Len(base.draft) :
         /\ NewWorkoutExercise(k).workout_id = NewWorkoutId
         /\ NewWorkoutExercise(k).order = k - 1
         /\ NewWorkoutExercise(k).exercise_id = base.draft[k].exercise_id

IsPrefix(s, t) == Len(s) <= Len(t) /\ SubSeq(t, 1, Len(s)) = s
LastOf(s) == s[Len(s)]

\* C2: when an insert of a createWorkout run fails, no later insert of the
\* run is issued, that error is the one shown, success is not reported, and
\* the rows inserted before stay in the store (no statement removes a row).
C2_FailureAborts ==
  /\ [](\A k \in 1..Len(log) :
          log[k].error # Null => k = Len(log) /\ run.pc = "idle" /\ ~loading)
  /\ [][ /\ IsPrefix(workouts, workouts')
         /\ IsPrefix(workout_exercises, workout_exercises')
         /\ IsPrefix(sets, sets')
         /\ (log' # log /\ log' # <<>> /\ LastOf(log').error # Null) =>
               /\ alert' = ErrorAlert(LastOf(log').error[1].message)
               /\ storeVars' = storeVars ]_vars

\* a run failed after its workout row and a junction row were stored
C2_Witness ==
  /\ Len(log) >= 3
  /\ LastOf(log).error # Null
  /\ Len(workouts) = base.sizes.workouts + 1
  /\ Len(workout_exercises) > base.sizes.workout_exercises

----------------------------------------------------------------------------
(* WorkoutDetailScreen.

   A handler's store call is a record of `pending`: sent, then executed by
   the store (storeExecutes), then resumed by the handler's continuation.  The
   continuation works on the `workout` its closure captured when the handler
   was called (field view).  Leaving the screen unmounts the component: calls
   still in flight reach the store, but their continuations update nothing.
   The previous-performance lookups of fetchWorkoutDetails are one step here. *)

RECURSIVE SumSeq(_)
SumSeq(s) == IF s = <<>> THEN 0 ELSE Head(s) + SumSeq(Tail(s))

\* Array.prototype.sort with comparator (a, b) => key(a) - key(b) is stable:
\* entries with equal keys keep the order they arrived in
RECURSIVE InsertByKey(_, _, _)
InsertByKey(sorted, x, keys) ==
  IF sorted = <<>> THEN <<x>>
  ELSE IF keys[sorted[Len(sorted)]] <= keys[x] THEN Append(sorted, x)
  ELSE Append(InsertByKey(SubSeq(sorted, 1, Len(sorted) - 1), x, keys),
              sorted[Len(sorted)])

\* the positions 1..n of a sequence of n keys, stably sorted by key
RECURSIVE SortedPositions(_, _)
SortedPositions(n, keys) ==
  IF n = 0 THEN <<>> ELSE InsertByKey(SortedPositions(n - 1, keys), n, keys)

SortByKey(s, keys) ==
  LET at == SortedPositions(Len(s), keys)
  IN [k \in 1..Len(s) |-> s[at[k]]]

\* sort((a, b) => new Date(a.created_at) - new Date(b.created_at))
SortByCreatedAt(rows) == SortByKey(rows, [k \in 1..Len(rows) |-> rows[k].created_at])

\* .order('order')
SortByOrder(rows) == SortByKey(rows, [k \in 1..Len(rows) |-> rows[k].order])

Reversed(s) == [k \in 1..Len(s) |-> s[Len(s) + 1 - k]]

\* lines 72-78: the embedded `sets (...)` carry no order, the store returns
\* the rows of a junction row as it finds them: as they were stored, or the
\* other way round
Embedded(rows, reversed) == IF reversed THEN Reversed(rows) ELSE rows

\* lines 62-94: the junction rows of the workout by `order`, each with its
\* sets by created_at
ExercisesOf(id, reversed) ==
  LET rows == SortByOrder(SelectSeq(workout_exercises, LAMBDA we : we.workout_id = id))
  IN [k \in 1..Len(rows) |->
        [workout_exercise_id |-> rows[k].id,
         id |-> rows[k].exercise_id,
         sets |-> SortByCreatedAt(
                    Embedded(SelectSeq(sets, LAMBDA st : st.workout_exercise_id = rows[k].id),
                             reversed))]]

\* lines 270-282
getTotalSets ==
  IF workout = Null THEN 0
  ELSE SumSeq([k \in 1..Len(workout[1].exercises) |-> Len(workout[1].exercises[k].sets)])

getCompletedSets ==
  IF workout = Null THEN 0
  ELSE SumSeq([k \in 1..Len(workout[1].exercises) |->
                 Len(SelectSeq(workout[1].exercises[k].sets, LAMBDA st : st.completed))])

\* lines 284-298: the screen shows the workout
DetailShown ==
  /\ screen = "detail"
  /\ ~detailLoading
  /\ workout # Null
  /\ detailAlert.kind # "Success"

\* lines 426-434: the footer is rendered and its button is not disabled
CompleteButtonEnabled ==
  /\ DetailShown
  /\ workout[1].completed_at = Null
  /\ getCompletedSets = getTotalSets

\* the column a call writes is the one its op names
NoValue == [completed |-> FALSE, reps |-> 0, weight |-> Null, at |-> Null]

Call(op, setId, value) ==
  [op |-> op, setId |-> setId, value |-> value, view |-> workout,
   phase |-> "sent", error |-> Null, orphan |-> FALSE]

\* the sets of the view, with the exercise they are shown under
ViewSets ==
  { st \in UNION { Range(workout[1].exercises[k].sets) :
                     k \in 1..Len(workout[1].exercises) } : TRUE }

\* lines 156-162
toggleSetCompletion(setId, completed) ==
  /\ DetailShown
  /\ ~updating
  /\ \E st \in ViewSets : st.id = setId /\ st.completed = completed
  /\ Cardinality(pending) < MaxPending
  /\ calls < MaxCalls
  /\ calls' = calls + 1
  /\ updating' = TRUE
  /\ pending' = pending \cup {Call("toggle", setId, [NoValue EXCEPT !.completed = ~completed])}
  /\ UNCHANGED <<storeVars, workoutId, rendered, previousByExerciseId, screen, workout, detailLoading, fetch, detailAlert>>
  /\ UNCHANGED offDetail

\* Math.floor(x || 0) bounded below by 0, for an integer or NaN
safeRepsOf(newReps) ==
  LET x == IF newReps.k = "nan" \/ newReps.v = 0 THEN 0 ELSE newReps.v
  IN IF x < 0 THEN 0 ELSE x

\* lines 184-191
updateSetReps(setId, newReps) ==
  /\ DetailShown
  /\ ~updating
  /\ \E st \in ViewSets : st.id = setId
  /\ Cardinality(pending) < MaxPending
  /\ calls < MaxCalls
  /\ calls' = calls + 1
  /\ updating' = TRUE
  /\ pending' = pending \cup {Call("reps", setId, [NoValue EXCEPT !.reps = safeRepsOf(newReps)])}
  /\ UNCHANGED <<storeVars, workoutId, rendered, previousByExerciseId, screen, workout, detailLoading, fetch, detailAlert>>
  /\ UNCHANGED offDetail

\* lines 219-221 with 0 for a missing weight
weightValueOrZero(newWeight) ==
  IF newWeight.k = "undefined" \/ newWeight.k = "nan" THEN Some(0) ELSE Some(newWeight.v)

\* lines 219-221
weightValueOf(newWeight) ==
  IF newWeight.k = "undefined" \/ newWeight.k = "nan" THEN Null ELSE Some(newWeight.v)

\* lines 216-225
updateSetWeight(setId, newWeight) ==
  /\ DetailShown
  /\ ~updating
  /\ \E st \in ViewSets : st.id = setId
  /\ Cardinality(pending) < MaxPending
  /\ calls < MaxCalls
  /\ calls' = calls + 1
  /\ updating' = TRUE
  /\ pending' = pending \cup {Call("weight", setId, [NoValue EXCEPT !.weight = weightValueOf(newWeight)])}
  /\ UNCHANGED <<storeVars, workoutId, rendered, previousByExerciseId, screen, workout, detailLoading, fetch, detailAlert>>
  /\ UNCHANGED offDetail

\* lines 250-255: new Date().toISOString() is read when the button is pressed
completeWorkout ==
  /\ CompleteButtonEnabled
  /\ Cardinality(pending) < MaxPending
  /\ calls < MaxCalls
  /\ calls' = calls + 1
  /\ pending' = pending \cup {Call("complete", 0, [NoValue EXCEPT !.at = Some(clock)])}
  /\ clock' = clock + 1
  /\ UNCHANGED <<workouts, workout_exercises, sets, workoutId, rendered, previousByExerciseId, screen, workout,
                 detailLoading, updating, fetch, detailAlert>>
  /\ UNCHANGED offDetail

\* lines 159-162, 187-190, 224-227 without .eq('id', setId): the column is
\* written in every row
UpdatedSetsUnkeyed(rows, p) ==
  IF p.op \in {"toggle", "reps", "weight"}
    THEN [j \in 1..Len(rows) |->
            IF p.op = "toggle" THEN [rows[j] EXCEPT !.completed = p.value.completed]
            ELSE IF p.op = "reps" THEN [rows[j] EXCEPT !.reps = p.value.reps]
            ELSE [rows[j] EXCEPT !.weight = p.value.weight]]
    ELSE rows

\* lines 159-162, 187-190, 224-227: UPDATE sets SET <column> WHERE id = setId
UpdatedSets(rows, p) ==
  IF p.op \in {"toggle", "reps", "weight"} /\ p.setId \in 1..Len(rows)
    THEN [rows EXCEPT ![p.setId] =
            IF p.op = "toggle" THEN [@ EXCEPT !.completed = p.value.completed]
            ELSE IF p.op = "reps" THEN [@ EXCEPT !.reps = p.value.reps]
            ELSE [@ EXCEPT !.weight = p.value.weight]]
    ELSE rows

\* Executed with a completion update that clears completed_at when it is set
ExecutedClearing(p) ==
  /\ sets' = UpdatedSets(sets, p)
  /\ workouts' = IF p.op = "complete" /\ workoutId \in 1..Len(workouts)
                   THEN [workouts EXCEPT ![workoutId].completed_at =
                           IF @ = Null THEN p.value.at ELSE Null]
                   ELSE workouts

\* UPDATE ... WHERE id = ...: the store executes a call that was sent
Executed(p) ==
  /\ sets' = UpdatedSets(sets, p)
  /\ workouts' = IF p.op = "complete" /\ workoutId \in 1..Len(workouts)
                   THEN [workouts EXCEPT ![workoutId].completed_at = p.value.at]
                   ELSE workouts

storeExecutes(p, ok) ==
  /\ p \in pending
  /\ p.phase = "sent"
  /\ IF ok THEN Executed(p) ELSE UNCHANGED <<workouts, sets>>
  /\ pending' = (pending \ {p}) \cup
                  IF p.orphan THEN {}
                  ELSE {[p EXCEPT !.phase = "replied",
                                  !.error = IF ok THEN Null
                                            ELSE Some(StoreError(p.op, p.setId))]}
  /\ UNCHANGED <<workout_exercises, clock, workoutId, rendered, previousByExerciseId, calls, screen, workout, detailLoading,
                 updating, fetch, detailAlert>>
  /\ UNCHANGED offDetail

\* the captured view with one field of one set replaced
WithSet(view, setId, field, value) ==
  [view EXCEPT !.exercises =
     [k \in 1..Len(@) |->
        [@[k] EXCEPT !.sets =
           [j \in 1..Len(@) |->
              IF @[j].id = setId
                THEN IF field = "toggle" THEN [@[j] EXCEPT !.completed = value.completed]
                     ELSE IF field = "reps" THEN [@[j] EXCEPT !.reps = value.reps]
                     ELSE [@[j] EXCEPT !.weight = value.weight]
                ELSE @[j]]]]]

\* setEditReturns without `if (error) throw error`: the view is updated
\* whatever the store answered
setEditReturnsUnchecked(p) ==
  /\ p \in pending
  /\ p.phase = "replied"
  /\ p.op \in {"toggle", "reps", "weight"}
  /\ pending' = pending \ {p}
  /\ updating' = FALSE
  /\ workout' = IF p.view = Null THEN workout
                ELSE Some(WithSet(p.view[1], p.setId, p.op, p.value))
  /\ UNCHANGED detailAlert
  /\ UNCHANGED <<storeVars, workoutId, rendered, previousByExerciseId, calls, screen, detailLoading, fetch>>
  /\ UNCHANGED offDetail

\* lines 164-181, 193-213, 227-247: the continuation of a set edit
setEditReturns(p) ==
  /\ p \in pending
  /\ p.phase = "replied"
  /\ p.op \in {"toggle", "reps", "weight"}
  /\ pending' = pending \ {p}
  /\ updating' = FALSE
  /\ IF p.error # Null
       THEN /\ detailAlert' = ErrorAlert(p.error[1].message)
            /\ UNCHANGED workout
       ELSE /\ workout' = IF p.view = Null THEN workout
                          ELSE Some(WithSet(p.view[1], p.setId, p.op, p.value))
            /\ UNCHANGED detailAlert
  /\ UNCHANGED <<storeVars, workoutId, rendered, previousByExerciseId, calls, screen, detailLoading, fetch>>
  /\ UNCHANGED offDetail

\* lines 257-267
completeWorkoutReturns(p) ==
  /\ p \in pending
  /\ p.phase = "replied"
  /\ p.op = "complete"
  /\ pending' = pending \ {p}
  /\ detailAlert' = IF p.error # Null THEN ErrorAlert(p.error[1].message)
                     ELSE SuccessAlert(<<"Workout completed!">>)
  /\ UNCHANGED <<storeVars, workoutId, rendered, previousByExerciseId, calls, screen, workout, detailLoading, updating, fetch>>
  /\ UNCHANGED offDetail

\* the calls of an unmounted screen: those already answered resume into
\* nothing, those still to be executed will reach the store
Orphaned(inFlight) ==
  { [p EXCEPT !.orphan = TRUE, !.view = Null] :
      p \in { q \in inFlight : q.phase = "sent" } }

\* lines 259-263: OK on the success dialog is navigation.goBack();
\* the header's back button leaves the screen at any other time
goBack ==
  /\ screen = "detail"
  /\ screen' = "away"
  /\ pending' = Orphaned(pending)
  /\ fetch' = [pc |-> "idle"]
  /\ detailAlert' = NoAlert
  /\ UNCHANGED <<storeVars, workoutId, rendered, previousByExerciseId, calls, workout, detailLoading, updating>>
  /\ UNCHANGED offDetail

\* lines 36-48: the screen is mounted and the effect calls fetchWorkoutDetails
openDetail ==
  /\ screen = "away"
  /\ screen' = "detail"
  /\ workout' = Null
  /\ detailLoading' = TRUE
  /\ updating' = FALSE
  /\ fetch' = [pc |-> "workout"]
  /\ detailAlert' = NoAlert
  /\ previousByExerciseId' = NoPrevious
  /\ UNCHANGED <<storeVars, workoutId, rendered, calls, pending>>
  /\ UNCHANGED offDetail

\* lines 149-153
FetchFails(error) ==
  /\ detailAlert' = ErrorAlert(error.message)
  /\ detailLoading' = FALSE
  /\ fetch' = [pc |-> "idle"]
  /\ UNCHANGED workout

\* lines 53-59
fetchWorkoutReturns(ok) ==
  /\ fetch.pc = "workout"
  /\ IF ok /\ workoutId \in 1..Len(workouts)
       THEN /\ fetch' = [pc |-> "exercises", workoutData |-> workouts[workoutId]]
            /\ UNCHANGED <<workout, detailLoading, detailAlert>>
       ELSE FetchFails(StoreError("workouts", workoutId))
  /\ UNCHANGED <<storeVars, workoutId, rendered, previousByExerciseId, calls, screen, updating, pending>>
  /\ UNCHANGED offDetail

\* lines 62-94
fetchExercisesReturns(ok) ==
  /\ fetch.pc = "exercises"
  /\ IF ok
       THEN /\ \E reversed \in BOOLEAN :
                 fetch' = [pc |-> "previous", workoutData |-> fetch.workoutData,
                           exercises |-> ExercisesOf(workoutId, reversed)]
            /\ UNCHANGED <<workout, detailLoading, detailAlert>>
       ELSE FetchFails(StoreError("workout_exercises", workoutId))
  /\ UNCHANGED <<storeVars, workoutId, rendered, previousByExerciseId, calls, screen, updating, pending>>
  /\ UNCHANGED offDetail

\* the junction rows of exercise exId in workouts of the same user created
\* before the viewed workout (lines 113-115)
PreviousCandidates(exId, workoutData) ==
  { k \in 1..Len(workout_exercises) :
      /\ workout_exercises[k].exercise_id = exId
      /\ workout_exercises[k].workout_id \in 1..Len(workouts)
      /\ workouts[workout_exercises[k].workout_id].user_id = workoutData.user_id
      /\ workouts[workout_exercises[k].workout_id].created_at < workoutData.created_at }

\* lines 120-124: the sets of junction row k by created_at, as {weight, reps};
\* the embedded `sets (...)` of lines 107-111 carry no order either
PreviousSetsOf(k, reversed) ==
  LET setsSorted == SortByCreatedAt(
                      Embedded(SelectSeq(sets, LAMBDA st : st.workout_exercise_id =
                                                              workout_exercises[k].id),
                               reversed))
  IN [j \in 1..Len(setsSorted) |->
        [weight |-> setsSorted[j].weight, reps |-> Some(setsSorted[j].reps)]]

\* lines 100-127.  `.order('created_at', {referencedTable: 'workouts'})` is
\* the request parameter workouts.order=created_at.desc: it orders the rows
\* embedded under each junction row, not the junction rows themselves, so
\* `.limit(1)` keeps whichever candidate the store returns first.  A failed
\* lookup and a lookup without candidates both give [].
PreviousOutcomes(exId, workoutData) ==
  {<<>>} \cup { PreviousSetsOf(k, reversed) :
        k \in PreviousCandidates(exId, workoutData), reversed \in BOOLEAN }

\* lines 100-119: the rows a lookup that does not fail comes back with
PreviousData(exId, workoutData) ==
  IF PreviousCandidates(exId, workoutData) = {}
    THEN {<<>>}
    ELSE { PreviousSetsOf(k, reversed) :
        k \in PreviousCandidates(exId, workoutData), reversed \in BOOLEAN }

ViewedExercises(exercises) == { exercises[k].id : k \in 1..Len(exercises) }

\* fetchPublishes with a lookup error thrown like workoutError and weError
fetchPublishesThrowing(failed) ==
  /\ fetch.pc = "previous"
  /\ failed \subseteq ViewedExercises(fetch.exercises)
  /\ IF failed # {}
       THEN /\ FetchFails(StoreError("workout_exercises", workoutId))
            /\ UNCHANGED previousByExerciseId
       ELSE /\ \E prevMap \in [ExerciseIds ->
                      UNION { PreviousOutcomes(e, fetch.workoutData) : e \in ExerciseIds }] :
                 /\ \A e \in ExerciseIds :
                      prevMap[e] \in IF e \in ViewedExercises(fetch.exercises)
                                       THEN PreviousData(e, fetch.workoutData)
                                       ELSE {<<>>}
                 /\ previousByExerciseId' = prevMap
            /\ workout' = Some([id |-> fetch.workoutData.id,
                                user_id |-> fetch.workoutData.user_id,
                                created_at |-> fetch.workoutData.created_at,
                                completed_at |-> fetch.workoutData.completed_at,
                                exercises |-> fetch.exercises])
            /\ detailLoading' = FALSE
            /\ fetch' = [pc |-> "idle"]
            /\ UNCHANGED detailAlert
  /\ UNCHANGED <<storeVars, workoutId, rendered, calls, screen, updating, pending>>
  /\ UNCHANGED offDetail

\* lines 98-153: the lookups have resolved, those of the exercises in
\* `failed` with an error; the state is published
fetchPublishes(failed) ==
  /\ fetch.pc = "previous"
  /\ failed \subseteq ViewedExercises(fetch.exercises)
  /\ \E prevMap \in [ExerciseIds ->
                      UNION { PreviousOutcomes(e, fetch.workoutData) : e \in ExerciseIds }] :
       /\ \A e \in ExerciseIds :
            prevMap[e] \in IF e \in ViewedExercises(fetch.exercises) \ failed
                             THEN PreviousData(e, fetch.workoutData)
                             ELSE {<<>>}
       /\ previousByExerciseId' = prevMap
  /\ workout' = Some([id |-> fetch.workoutData.id,
                      user_id |-> fetch.workoutData.user_id,
                      created_at |-> fetch.workoutData.created_at,
                      completed_at |-> fetch.workoutData.completed_at,
                      exercises |-> fetch.exercises])
  /\ detailLoading' = FALSE
  /\ fetch' = [pc |-> "idle"]
  /\ UNCHANGED <<storeVars, workoutId, rendered, calls, screen, updating, pending, detailAlert>>
  /\ UNCHANGED offDetail

----------------------------------------------------------------------------
(* The detail specification: one stored workout, as the composer leaves it *)

\* the set counts of the workout's exercises: at most MaxSets sets in all
Shapes ==
  { shape \in UNION { [1..n -> 0..MaxSets] : n \in 0..Cardinality(ExerciseIds) } :
      SumSeq(shape) <= MaxSets }

ExerciseAt == <<"bench", "squat">>

StoredSets(shape) ==
  LET owner == [j \in 1..SumSeq(shape) |->
                  CHOOSE k \in 1..Len(shape) :
                     /\ SumSeq(SubSeq(shape, 1, k - 1)) < j
                     /\ j <= SumSeq(SubSeq(shape, 1, k))]
  IN [j \in 1..SumSeq(shape) |->
        [id |-> j, workout_exercise_id |-> owner[j], weight |-> Null,
         reps |-> DefaultReps, completed |-> FALSE, created_at |-> 2 * owner[j] + 1]]

InitDetail ==
  \E shape \in Shapes :
    /\ workouts = <<[id |-> 1, user_id |-> UserId, name |-> <<"A">>,
                     created_at |-> 1, completed_at |-> Null]>>
    /\ workout_exercises =
         [k \in 1..Len(shape) |->
            [id |-> k, workout_id |-> 1, exercise_id |-> ExerciseAt[k],
             order |-> k - 1, created_at |-> 2 * k]]
    /\ sets = StoredSets(shape)
    /\ clock = 2 * Len(shape) + 2
    /\ DetailClosed(1)
    /\ InitComposer
    /\ HistoryUnused

SetIds == 1..MaxSets
NaN == [k |-> "nan", v |-> 0]
Undefined == [k |-> "undefined", v |-> 0]
Num(v) == [k |-> "num", v |-> v]
RepsInputs == { NaN, Num(0 - 1), Num(5) }
WeightInputs == { Undefined, Num(5) }

NextDetail ==
  \/ openDetail
  \/ goBack
  \/ \E ok \in BOOLEAN : fetchWorkoutReturns(ok)
  \/ \E ok \in BOOLEAN : fetchExercisesReturns(ok)
  \/ \E failed \in SUBSET ExerciseIds : fetchPublishes(failed)
  \/ \E setId \in SetIds, completed \in BOOLEAN : toggleSetCompletion(setId, completed)
  \/ \E setId \in SetIds, newReps \in RepsInputs : updateSetReps(setId, newReps)
  \/ \E setId \in SetIds, newWeight \in WeightInputs : updateSetWeight(setId, newWeight)
  \/ completeWorkout
  \/ \E p \in pending, ok \in BOOLEAN : storeExecutes(p, ok)
  \/ \E p \in pending : setEditReturns(p)
  \/ \E p \in pending : completeWorkoutReturns(p)

SpecDetail == InitDetail /\ [][NextDetail]_vars

----------------------------------------------------------------------------
(* The completion gate *)

\* the stored sets under every WorkoutExercise of workout w
StoredSetsOf(w) ==
  { sets[j] : j \in { i \in 1..Len(sets) :
      \E k \in 1..Len(workout_exercises) :
         /\ workout_exercises[k].workout_id = w
         /\ sets[i].workout_exercise_id = workout_exercises[k].id } }

\* the store moves completed_at of workout w from null to non-null
Completes(w) ==
  /\ w \in 1..Len(workouts)
  /\ workouts[w].completed_at = Null
  /\ workouts'[w].completed_at # Null

\* C3: a workout that has a set with completed = false never has its
\* completed_at changed from null to non-null: the completion update is not
\* issued and does not reach the store while any of its sets is incomplete.
C3_CompletionGate ==
  /\ [][ \A w \in 1..Len(workouts) :
           Completes(w) => \A st \in StoredSetsOf(w) : st.completed ]_vars
  /\ [][ calls' # calls /\ (\E p \in pending' \ pending : p.op = "complete")
           => \A st \in StoredSetsOf(workoutId) : st.completed ]_vars

\* C4: the Complete Workout button can be pressed only when
\* completedSets = totalSets and totalSets > 0; a workout without sets
\* cannot be completed.
C4_ZeroSetsBlocked ==
  CompleteButtonEnabled => (getCompletedSets = getTotalSets /\ getTotalSets > 0)

\* C5: in every store state a workout's completed_at is non-null if and only
\* if every set under every WorkoutExercise of the workout is completed.
C5_CompletedIffAllSetsDone ==
  \A w \in 1..Len(workouts) :
    (workouts[w].completed_at # Null) <=> (\A st \in StoredSetsOf(w) : st.completed)

----------------------------------------------------------------------------
(* The previous-performance lookup: a store with a history of workouts, one
   of which is opened on the detail screen *)

UserIds == {UserId, "u2"}

\* a workout of the history: its owner and, if it contains the bench press,
\* the number of sets logged for it
Histories ==
  [1..MaxHistory -> [user_id : UserIds,
                     bench : {Null} \cup { Some(n) : n \in 0..MaxSets }]]

WithBench(h) == SelectSeq([i \in 1..Len(h) |-> i], LAMBDA i : h[i].bench # Null)

\* workout i is created at 3i - 2, its junction row at 3i - 1, its sets at 3i;
\* set j of workout i has reps 5 + i and, when i + j is odd, weight 10i + j
HistorySets(h) ==
  LET shape == [k \in 1..Len(WithBench(h)) |-> h[WithBench(h)[k]].bench[1]]
      owner == [j \in 1..SumSeq(shape) |->
                  CHOOSE k \in 1..Len(shape) :
                     /\ SumSeq(SubSeq(shape, 1, k - 1)) < j
                     /\ j <= SumSeq(SubSeq(shape, 1, k))]
  IN [j \in 1..SumSeq(shape) |->
        LET i == WithBench(h)[owner[j]]
            nth == j - SumSeq(SubSeq(shape, 1, owner[j] - 1))
        IN [id |-> j, workout_exercise_id |-> owner[j],
            weight |-> IF (i + nth) % 2 = 1 THEN Some(10 * i + nth) ELSE Null,
            reps |-> 5 + i, completed |-> FALSE, created_at |-> 3 * i]]

InitLookup ==
  \E h \in Histories, viewed \in 1..MaxHistory :
    /\ workouts = [i \in 1..MaxHistory |->
                     [id |-> i, user_id |-> h[i].user_id, name |-> <<"A">>,
                      created_at |-> 3 * i - 2, completed_at |-> Null]]
    /\ workout_exercises =
         [k \in 1..Len(WithBench(h)) |->
            [id |-> k, workout_id |-> WithBench(h)[k], exercise_id |-> "bench",
             order |-> 0, created_at |-> 3 * WithBench(h)[k] - 1]]
    /\ sets = HistorySets(h)
    /\ clock = 3 * MaxHistory + 1
    /\ DetailClosed(viewed)
    /\ InitComposer
    /\ HistoryUnused

NextLookup ==
  \/ openDetail
  \/ goBack
  \/ \E ok \in BOOLEAN : fetchWorkoutReturns(ok)
  \/ \E ok \in BOOLEAN : fetchExercisesReturns(ok)
  \/ \E failed \in SUBSET ExerciseIds : fetchPublishes(failed)

SpecLookup == InitLookup /\ [][NextLookup]_vars

\* JavaScript's `${v}` of a nullable integer
Template(v) == IF v = Null THEN "null" ELSE ToString(v[1])

\* lines 350-354, without the null tests
prevTextUnchecked(exercise, setIndex) ==
  LET prevSets == previousByExerciseId[exercise.id]
  IN IF setIndex + 1 <= Len(prevSets)
       THEN Template(prevSets[setIndex + 1].weight) \o "x"
              \o Template(prevSets[setIndex + 1].reps)
       ELSE "-"

\* lines 335, 350-354: prevSets[setIndex] is undefined past the end
prevText(exercise, setIndex) ==
  LET prevSets == previousByExerciseId[exercise.id]
  IN IF /\ setIndex + 1 <= Len(prevSets)
        /\ prevSets[setIndex + 1].weight # Null
        /\ prevSets[setIndex + 1].reps # Null
       THEN Template(prevSets[setIndex + 1].weight) \o "x"
              \o Template(prevSets[setIndex + 1].reps)
       ELSE "-"

\* the workouts of the viewed workout's user that were created strictly
\* before it and contain exercise e
EarlierWorkoutsWith(e) ==
  { w \in 1..Len(workouts) :
      /\ workouts[w].user_id = workout[1].user_id
      /\ workouts[w].created_at < workout[1].created_at
      /\ \E k \in 1..Len(workout_exercises) :
            workout_exercises[k].workout_id = w /\ workout_exercises[k].exercise_id = e }

\* the {weight, reps} of the sets of exercise e in workout w, by created_at
LoggedSets(w, e) ==
  LET we == CHOOSE k \in 1..Len(workout_exercises) :
               workout_exercises[k].workout_id = w /\ workout_exercises[k].exercise_id = e
      mine == SortByCreatedAt(SelectSeq(sets, LAMBDA st : st.workout_exercise_id =
                                                      workout_exercises[we].id))
  IN [j \in 1..Len(mine) |-> [weight |-> mine[j].weight, reps |-> Some(mine[j].reps)]]

\* C6: for every exercise of the viewed workout the lookup yields the sets
\* ({weight, reps} by created_at) of the exercise in the workout with the
\* greatest created_at among the same user's earlier workouts that contain
\* the exercise, and the empty sequence when there is none.  (A lookup that
\* fails yields the empty sequence too; that case is left out here.)
C6_PreviousIsMostRecent ==
  workout # Null =>
    \A k \in 1..Len(workout[1].exercises) :
      LET e == workout[1].exercises[k].id
          shown == previousByExerciseId[e]
      IN /\ EarlierWorkoutsWith(e) = {} => shown = <<>>
         /\ shown # <<>> =>
              \E w \in EarlierWorkoutsWith(e) :
                 /\ \A v \in EarlierWorkoutsWith(e) :
                       workouts[v].created_at <= workouts[w].created_at
                 /\ shown = LoggedSets(w, e)

\* the sets the screen lists: exercise k of the view, 0-based index
ShownSets ==
  IF workout = Null THEN {}
  ELSE { <<k, setIndex>> \in (1..Len(workout[1].exercises)) \X (0..MaxSets) :
           setIndex < Len(workout[1].exercises[k].sets) }

\* C7: the previous value shown next to the set at index k is the k-th
\* element of the previous sequence as <weight>x<reps> whenever k is less
\* than the sequence's length, and - when the sequence is shorter.
C7_PositionalPrevious ==
  \A at \in ShownSets :
    LET exercise == workout[1].exercises[at[1]]
        prev == previousByExerciseId[exercise.id]
    IN prevText(exercise, at[2]) =
         IF at[2] < Len(prev)
           THEN Template(prev[at[2] + 1].weight) \o "x" \o Template(prev[at[2] + 1].reps)
           ELSE "-"

\* C7 (amended): <weight>x<reps> of the k-th element is shown whenever k is
\* less than the sequence's length and the element's weight and reps are both
\* non-null; - is shown when the sequence is shorter or either is null.
C7_PositionalPreviousNonNull ==
  \A at \in ShownSets :
    LET exercise == workout[1].exercises[at[1]]
        prev == previousByExerciseId[exercise.id]
    IN IF at[2] < Len(prev) /\ prev[at[2] + 1].weight # Null
                            /\ prev[at[2] + 1].reps # Null
         THEN prevText(exercise, at[2]) =
                ToString(prev[at[2] + 1].weight[1]) \o "x"
                  \o ToString(prev[at[2] + 1].reps[1])
         ELSE prevText(exercise, at[2]) = "-"

\* a set with a logged previous value, one with a previous set without weight
\* and one past the end of the previous sequence are on the screen
C7_Witness ==
  /\ \E at \in ShownSets :
       LET prev == previousByExerciseId[workout[1].exercises[at[1]].id]
       IN at[2] < Len(prev) /\ prev[at[2] + 1].weight = Null
  /\ \E at \in ShownSets :
       LET prev == previousByExerciseId[workout[1].exercises[at[1]].id]
       IN /\ at[2] < Len(prev) /\ prev[at[2] + 1].weight # Null
          /\ prevText(workout[1].exercises[at[1]], at[2]) # "-"

----------------------------------------------------------------------------
(* JavaScript numbers.  `(completedSets / totalSets) * 100` is computed in
   IEEE-754 binary64: the quotient is rounded to 53 significant bits, ties to
   even, and so is the product.  A positive double is its 53 mantissa bits,
   most significant first, and the exponent of the last one: the value is
   mant * 2^exp.  Zero has no bits. *)

Precision == 53

Zero == [mant |-> <<>>, exp |-> 0]

RECURSIVE IntBits(_)
IntBits(n) == IF n = 0 THEN <<>> ELSE Append(IntBits(n \div 2), n % 2)

RECURSIVE BitsToInt(_)
BitsToInt(bits) ==
  IF bits = <<>> THEN 0
  ELSE 2 * BitsToInt(SubSeq(bits, 1, Len(bits) - 1)) + bits[Len(bits)]

\* the first n bits after the binary point of r / t, for 0 <= r < t
RECURSIVE Expand(_, _, _)
Expand(r, t, n) ==
  IF n = 0 THEN <<>>
  ELSE IF 2 * r >= t THEN <<1>> \o Expand(2 * r - t, t, n - 1)
  ELSE <<0>> \o Expand(2 * r, t, n - 1)

\* what is left of r / t after those n bits
RECURSIVE RemainderAfter(_, _, _)
RemainderAfter(r, t, n) ==
  IF n = 0 THEN r
  ELSE IF 2 * r >= t THEN RemainderAfter(2 * r - t, t, n - 1)
  ELSE RemainderAfter(2 * r, t, n - 1)

\* the zero bits after the binary point before the first one of r / t, 0 < r < t
RECURSIVE LeadingZeros(_, _)
LeadingZeros(r, t) == IF 2 * r >= t THEN 0 ELSE 1 + LeadingZeros(2 * r, t)

\* bits + 1, one bit longer when every bit is one
RECURSIVE Increment(_)
Increment(bits) ==
  IF bits = <<>> THEN <<1>>
  ELSE IF bits[Len(bits)] = 0 THEN [bits EXCEPT ![Len(bits)] = 1]
  ELSE Append(Increment(SubSeq(bits, 1, Len(bits) - 1)), 0)

\* round to nearest, ties to even: `bits` starts with a one and has more than
\* Precision bits, `sticky` tells whether anything non-zero lies beyond them,
\* and exp is the exponent of the last bit of `bits`
RoundToDouble(bits, sticky, exp) ==
  LET kept == SubSeq(bits, 1, Precision)
      rest == SubSeq(bits, Precision + 1, Len(bits))
      more == sticky \/ \E i \in 2..Len(rest) : rest[i] = 1
      up == rest[1] = 1 /\ (more \/ kept[Precision] = 1)
      mant == IF up THEN Increment(kept) ELSE kept
      e == exp + Len(rest)
  IN IF Len(mant) > Precision
       THEN [mant |-> SubSeq(mant, 1, Precision), exp |-> e + 1]
       ELSE [mant |-> mant, exp |-> e]

\* a / b for integers a >= 0, b > 0
DoubleDiv(a, b) ==
  IF a = 0 THEN Zero
  ELSE LET whole == IntBits(a \div b)
           r == a % b
           lead == IF whole = <<>> /\ r > 0 THEN LeadingZeros(r, b) ELSE 0
           n == lead + Precision + 1 - Len(whole)
           stream == whole \o Expand(r, b, n)
       IN RoundToDouble(SubSeq(stream, lead + 1, Len(stream)),
                        RemainderAfter(r, b, n) # 0, 0 - n)

\* bits * n + carry in binary, n a small positive integer
RECURSIVE MulSmall(_, _, _)
MulSmall(bits, n, carry) ==
  IF bits = <<>> THEN IntBits(carry)
  ELSE LET v == bits[Len(bits)] * n + carry
       IN IF v % 2 = 1
            THEN Append(MulSmall(SubSeq(bits, 1, Len(bits) - 1), n, v \div 2), 1)
            ELSE Append(MulSmall(SubSeq(bits, 1, Len(bits) - 1), n, v \div 2), 0)

\* x * n for a double x >= 0 and an integer n >= 2
DoubleMul(x, n) ==
  IF x = Zero THEN Zero ELSE RoundToDouble(MulSmall(x.mant, n, 0), FALSE, x.exp)

\* Math.round(x) for a double 0 <= x < 2^31: the nearest integer, halves up
MathRound(x) ==
  IF x = Zero THEN 0
  ELSE LET places == 0 - x.exp
           padded == [i \in 1..(places - Precision) |-> 0] \o x.mant
           whole == SubSeq(padded, 1, Len(padded) - places)
       IN IF places <= 0 THEN BitsToInt(x.mant \o [i \in 1..x.exp |-> 0])
          ELSE BitsToInt(whole) + padded[Len(padded) - places + 1]

\* the exact 100 * a / b rounded to the nearest integer, halves up
RoundHalfUp(a, b) == (200 * a + b) \div (2 * b)

----------------------------------------------------------------------------
(* WorkoutHistoryScreen *)

\* .order('created_at', { ascending: false })
NewestFirst(rows) == SortByKey(rows, [k \in 1..Len(rows) |-> 0 - rows[k].created_at])

\* lines 41-64: the rows the store returns for the query built under filter f,
\* each with its junction rows and their sets embedded
HistoryRowsUnfiltered(f) ==
  LET mine == SelectSeq(workouts, LAMBDA w : w.user_id = UserId)
      rows == NewestFirst(mine)
  IN [i \in 1..Len(rows) |->
        [id |-> rows[i].id, created_at |-> rows[i].created_at,
         completed_at |-> rows[i].completed_at,
         workout_exercises |->
           LET junction == SelectSeq(workout_exercises,
                                      LAMBDA we : we.workout_id = rows[i].id)
           IN [k \in 1..Len(junction) |->
                 [sets |-> SelectSeq(sets, LAMBDA st : st.workout_exercise_id =
                                                            junction[k].id)]]]]

HistoryRows(f) ==
  LET mine == SelectSeq(workouts, LAMBDA w :
                /\ w.user_id = UserId
                /\ f = "completed" => w.completed_at # Null
                /\ f = "incomplete" => w.completed_at = Null)
      rows == NewestFirst(mine)
  IN [i \in 1..Len(rows) |->
        [id |-> rows[i].id, created_at |-> rows[i].created_at,
         completed_at |-> rows[i].completed_at,
         workout_exercises |->
           LET junction == SelectSeq(workout_exercises,
                                      LAMBDA we : we.workout_id = rows[i].id)
           IN [k \in 1..Len(junction) |->
                 [sets |-> SelectSeq(sets, LAMBDA st : st.workout_exercise_id =
                                                            junction[k].id)]]]]

\* lines 70-83
transformedWorkouts(data) ==
  [i \in 1..Len(data) |->
     [id |-> data[i].id, created_at |-> data[i].created_at,
      completed_at |-> data[i].completed_at,
      totalExercises |-> Len(data[i].workout_exercises),
      totalSets |-> SumSeq([k \in 1..Len(data[i].workout_exercises) |->
                              Len(data[i].workout_exercises[k].sets)]),
      completedSets |-> SumSeq([k \in 1..Len(data[i].workout_exercises) |->
                                  Len(SelectSeq(data[i].workout_exercises[k].sets,
                                                LAMBDA st : st.completed))])]]

\* lines 35-37, 39-66: the effect calls fetchWorkoutHistory, which sends the query
HistoryCall(f) == [filter |-> f, phase |-> "sent", data |-> <<>>, error |-> Null]

\* lines 153, 183-199: a filter button, shown once loading is false; the
\* effect runs when the filter changed
setFilter(f) ==
  /\ ~historyLoading
  /\ f # filter
  /\ Len(historyFetches) < MaxFetches
  /\ filter' = f
  /\ historyFetches' = Append(historyFetches, HistoryCall(f))
  /\ UNCHANGED <<storeVars, historyWorkouts, historyLoading>>
  /\ UNCHANGED offHistory

\* line 66: the store answers call i
historyQueryExecutes(i, ok) ==
  /\ i \in 1..Len(historyFetches)
  /\ historyFetches[i].phase = "sent"
  /\ historyFetches' =
       [historyFetches EXCEPT ![i] =
          IF ok THEN [@ EXCEPT !.phase = "replied", !.data = HistoryRows(historyFetches[i].filter)]
          ELSE [@ EXCEPT !.phase = "replied",
                         !.error = Some(StoreError("workouts", 0))]]
  /\ UNCHANGED <<storeVars, filter, historyWorkouts, historyLoading>>
  /\ UNCHANGED offHistory

\* lines 68-90
fetchWorkoutHistoryReturns(i) ==
  /\ i \in 1..Len(historyFetches)
  /\ historyFetches[i].phase = "replied"
  /\ historyWorkouts' = IF historyFetches[i].error # Null THEN historyWorkouts
                        ELSE transformedWorkouts(historyFetches[i].data)
  /\ historyLoading' = FALSE
  /\ historyFetches' = RemoveAt(historyFetches, i)
  /\ UNCHANGED <<storeVars, filter>>
  /\ UNCHANGED offHistory

\* part_001 line 302
progressPercentage ==
  IF getTotalSets > 0 THEN DoubleMul(DoubleDiv(getCompletedSets, getTotalSets), 100)
  ELSE Zero

\* WorkoutHistoryScreen.tsx line 137: the percentage on a workout's card
cardPercent(item) ==
  IF item.totalSets > 0
    THEN MathRound(DoubleMul(DoubleDiv(item.completedSets, item.totalSets), 100))
    ELSE 0

\* lines 93-106
getWorkoutStats ==
  LET totalSets == SumSeq([i \in 1..Len(historyWorkouts) |-> historyWorkouts[i].totalSets])
      completedSets ==
        SumSeq([i \in 1..Len(historyWorkouts) |-> historyWorkouts[i].completedSets])
  IN [totalWorkouts |-> Len(historyWorkouts),
      completedWorkouts |-> Len(SelectSeq(historyWorkouts,
                                          LAMBDA w : w.completed_at # Null)),
      totalSets |-> totalSets,
      completedSets |-> completedSets,
      completionRate |-> IF totalSets > 0
                           THEN MathRound(DoubleMul(DoubleDiv(completedSets, totalSets), 100))
                           ELSE 0]

----------------------------------------------------------------------------
(* Stores for the aggregates: workout i has one junction row (bench press)
   with `total` sets, the first `completed` of them completed *)

ProfileSets(ps) ==
  LET shape == [k \in 1..Len(ps) |-> ps[k].total]
      owner == [j \in 1..SumSeq(shape) |->
                  CHOOSE k \in 1..Len(shape) :
                     /\ SumSeq(SubSeq(shape, 1, k - 1)) < j
                     /\ j <= SumSeq(SubSeq(shape, 1, k))]
  IN [j \in 1..SumSeq(shape) |->
        [id |-> j, workout_exercise_id |-> owner[j], weight |-> Null,
         reps |-> DefaultReps,
         completed |-> j - SumSeq(SubSeq(shape, 1, owner[j] - 1))
                         <= ps[owner[j]].completed,
         created_at |-> 3 * owner[j]]]

ProfileStore(ps) ==
  /\ workouts = [i \in 1..Len(ps) |->
                   [id |-> i, user_id |-> ps[i].user_id, name |-> <<"A">>,
                    created_at |-> 3 * i - 2,
                    completed_at |-> IF ps[i].done THEN Some(3 * Len(ps) + i)
                                     ELSE Null]]
  /\ workout_exercises =
       [k \in 1..Len(ps) |->
          [id |-> k, workout_id |-> k, exercise_id |-> "bench", order |-> 0,
           created_at |-> 3 * k - 1]]
  /\ sets = ProfileSets(ps)
  /\ clock = 4 * Len(ps) + 1

\* the history screen is mounted: its effect has called fetchWorkoutHistory
HistoryMounted ==
  /\ filter = "all"
  /\ historyWorkouts = <<>>
  /\ historyLoading = TRUE
  /\ historyFetches = <<HistoryCall("all")>>

\* one workout of the user with t sets, c of them completed
InitProgress ==
  \E t \in 0..MaxTotalSets :
    \E c \in 0..t :
      /\ ProfileStore(<<[user_id |-> UserId, done |-> FALSE, total |-> t,
                         completed |-> c]>>)
      /\ DetailClosed(1)
      /\ HistoryMounted
      /\ InitComposer

NextProgress ==
  \/ openDetail
  \/ goBack
  \/ \E ok \in BOOLEAN : fetchWorkoutReturns(ok)
  \/ \E ok \in BOOLEAN : fetchExercisesReturns(ok)
  \/ \E failed \in SUBSET ExerciseIds : fetchPublishes(failed)
  \/ \E i \in 1..MaxFetches, ok \in BOOLEAN : historyQueryExecutes(i, ok)
  \/ \E i \in 1..MaxFetches : fetchWorkoutHistoryReturns(i)

SpecProgress == InitProgress /\ [][NextProgress]_vars

\* the set counts of a workout in the history
Counts == { <<0, 0>>, <<3, 2>>, <<20, 11>>, <<20, 12>> }

Profiles(users) ==
  { [user_id |-> u, done |-> d, total |-> n[1], completed |-> n[2]] :
      u \in users, d \in BOOLEAN, n \in Counts }

\* two workouts of the user and a third of either user
InitHistory ==
  \E ps \in [1..MaxHistory -> Profiles(UserIds)] :
    /\ \A i \in 1..(MaxHistory - 1) : ps[i].user_id = UserId
    /\ ProfileStore(ps)
    /\ DetailUnused
    /\ HistoryMounted
    /\ InitComposer

Filters == {"all", "completed", "incomplete"}

NextHistory ==
  \/ \E f \in Filters : setFilter(f)
  \/ \E i \in 1..MaxFetches, ok \in BOOLEAN : historyQueryExecutes(i, ok)
  \/ \E i \in 1..MaxFetches : fetchWorkoutHistoryReturns(i)

SpecHistory == InitHistory /\ [][NextHistory]_vars

----------------------------------------------------------------------------
(* Progress and history aggregates *)

StoredTotal(w) == Cardinality(StoredSetsOf(w))
StoredCompleted(w) == Cardinality({ st \in StoredSetsOf(w) : st.completed })

\* round-half-up of the real-valued percentage, 0 without sets
PercentOf(completedSets, totalSets) ==
  IF totalSets > 0 THEN RoundHalfUp(completedSets, totalSets) ELSE 0

\* C8: for the workout shown, totalSets is the number of its sets over all
\* exercises, completedSets the number of those that are completed, and the
\* percent is round-half-up(100 * completedSets / totalSets), or 0 without
\* sets; the detail view and the history card show the same percent.
C8_WorkoutProgress ==
  /\ workout # Null =>
       /\ getTotalSets = StoredTotal(workoutId)
       /\ getCompletedSets = StoredCompleted(workoutId)
       /\ MathRound(progressPercentage) = PercentOf(getCompletedSets, getTotalSets)
  /\ \A i \in 1..Len(historyWorkouts) :
       LET item == historyWorkouts[i]
       IN /\ item.totalSets = StoredTotal(item.id)
          /\ item.completedSets = StoredCompleted(item.id)
          /\ cardPercent(item) = PercentOf(item.completedSets, item.totalSets)
          /\ (workout # Null /\ workout[1].id = item.id) =>
               cardPercent(item) = MathRound(progressPercentage)

\* C9: historyStats of the listed workouts: totalWorkouts is their number,
\* completedWorkouts the number with non-null completed_at, totalSets and
\* completedSets the sums of the per-workout counts, and completionRate is
\* round-half-up(100 * completedSets / totalSets), or 0 without sets.
C9_HistoryStats ==
  LET listed == 1..Len(historyWorkouts)
      total == SumSeq([i \in listed |-> historyWorkouts[i].totalSets])
      completed == SumSeq([i \in listed |-> historyWorkouts[i].completedSets])
  IN /\ getWorkoutStats.totalWorkouts = Len(historyWorkouts)
     /\ getWorkoutStats.completedWorkouts =
          Cardinality({ i \in listed : historyWorkouts[i].completed_at # Null })
     /\ getWorkoutStats.totalSets = total
     /\ getWorkoutStats.completedSets = completed
     /\ getWorkoutStats.completionRate = PercentOf(completed, total)

IdsOf(rows) == { rows[i].id : i \in 1..Len(rows) }

\* the stored workouts of the signed-in user
Mine == { w \in 1..Len(workouts) : workouts[w].user_id = UserId }

\* what the claim says a query under filter f returns
Matching(f) ==
  { w \in Mine : /\ f = "completed" => workouts[w].completed_at # Null
                 /\ f = "incomplete" => workouts[w].completed_at = Null }

\* C10: over a fixed store the history query returns exactly the user's
\* workouts with non-null completed_at under `completed`, exactly those with
\* null completed_at under `incomplete` and all of them under `all`; the
\* first two results are disjoint and their union is the third.
C10_FilterPartition ==
  /\ \A f \in Filters :
       /\ IdsOf(HistoryRows(f)) = Matching(f)
       /\ Len(HistoryRows(f)) = Cardinality(Matching(f))
  /\ IdsOf(HistoryRows("completed")) \cap IdsOf(HistoryRows("incomplete")) = {}
  /\ IdsOf(HistoryRows("completed")) \cup IdsOf(HistoryRows("incomplete"))
       = IdsOf(HistoryRows("all"))
  /\ \A i \in 1..Len(historyFetches) :
       (historyFetches[i].phase = "replied" /\ historyFetches[i].error = Null)
         => IdsOf(historyFetches[i].data) = Matching(historyFetches[i].filter)

\* the store has answered a `completed` query of a user who has completed and
\* incomplete workouts, next to a completed workout of another user
C10_Witness ==
  /\ \E i \in 1..Len(historyFetches) :
       /\ historyFetches[i].phase = "replied"
       /\ historyFetches[i].filter = "completed"
       /\ historyFetches[i].data # <<>>
  /\ Matching("incomplete") # {}
  /\ \E w \in 1..Len(workouts) :
       workouts[w].user_id # UserId /\ workouts[w].completed_at # Null

----------------------------------------------------------------------------
(* Set edits *)

\* lines 136 and 242: the text of a set's weight field
weightFieldOf(weight) == IF weight # Null THEN ToString(weight[1]) ELSE ""

\* the store has just executed call p successfully
JustExecuted(p) ==
  /\ p \in pending
  /\ p.phase = "sent"
  /\ ~p.orphan
  /\ [p EXCEPT !.phase = "replied"] \in pending'

\* the continuation of call p has just run on the mounted screen
JustReturned(p) ==
  /\ p \in pending
  /\ p.phase = "replied"
  /\ p \notin pending'
  /\ screen' = "detail"

\* the sets with id setId in a view
InView(view, setId) ==
  { st \in UNION { Range(view.exercises[k].sets) : k \in 1..Len(view.exercises) } :
      st.id = setId }

SetEdits == {"toggle", "reps", "weight"}

\* the column of a set that an edit writes, and the value it writes
ColumnOf(st, p) ==
  IF p.op = "toggle" THEN [NoValue EXCEPT !.completed = st.completed]
  ELSE IF p.op = "reps" THEN [NoValue EXCEPT !.reps = st.reps]
  ELSE [NoValue EXCEPT !.weight = st.weight]

\* row st with the column of p taken from row from
WithColumn(st, p, from) ==
  IF p.op = "toggle" THEN [st EXCEPT !.completed = from.completed]
  ELSE IF p.op = "reps" THEN [st EXCEPT !.reps = from.reps]
  ELSE [st EXCEPT !.weight = from.weight]

\* two edits of different sets that are both still to be executed
Concurrent(p, q) ==
  /\ p \in pending /\ q \in pending
  /\ p.op \in SetEdits /\ q.op \in SetEdits
  /\ p.phase = "sent" /\ q.phase = "sent"
  /\ p.setId # q.setId

\* C19: a set edit that the store executes writes its value to its column of
\* its set and changes nothing else in the sets table; two edits of
\* different sets that are in flight together give the same table in either
\* order of execution, with both values stored.
C19_SetEditsIndependent ==
  /\ [][ \A p \in pending :
           (p.op \in SetEdits /\ p.phase = "sent" /\ p \notin pending' /\ sets' # sets) =>
             /\ Len(sets') = Len(sets)
             /\ \A j \in 1..Len(sets) : j # p.setId => sets'[j] = sets[j]
             /\ ColumnOf(sets'[p.setId], p) = p.value
             /\ WithColumn(sets'[p.setId], p, sets[p.setId]) = sets[p.setId] ]_vars
  /\ [](\A p, q \in pending :
          Concurrent(p, q) =>
            LET pq == UpdatedSets(UpdatedSets(sets, p), q)
                qp == UpdatedSets(UpdatedSets(sets, q), p)
            IN /\ pq = qp
               /\ ColumnOf(pq[p.setId], p) = p.value
               /\ ColumnOf(pq[q.setId], q) = q.value
               /\ \A j \in 1..Len(sets) : j \notin {p.setId, q.setId} => pq[j] = sets[j])

\* two edits of different sets were in flight together; the one issued later
\* has been executed and is stored, the other is still to be executed
C19_Witness ==
  \E p, q \in pending :
    /\ p.op \in SetEdits /\ q.op \in SetEdits
    /\ p.setId # q.setId
    /\ p.phase = "replied" /\ p.error = Null
    /\ q.phase = "sent" /\ q.orphan
    /\ ColumnOf(sets[p.setId], p) = p.value
    /\ ColumnOf(sets[q.setId], q) # q.value

----------------------------------------------------------------------------
(* Validation and failures of createWorkout *)

DraftInvalid == Trim(workoutName) = <<>> \/ Len(selectedExercises) = 0

\* C12: createWorkout on a draft whose trimmed name is blank or that has no
\* exercise selected shows an error, issues no store call, creates no row
\* and leaves name, description and selected exercises as they were, with
\* the create button enabled again; no request for a blank name or for no
\* exercise is ever in flight and no stored workout has a blank name.
C12_ValidationBeforeStore ==
  /\ [][ (DraftInvalid /\ createWorkout) =>
           /\ alert'.kind = "Error"
           /\ run' = IdleRun /\ log' = log /\ ~loading'
           /\ storeVars' = storeVars
           /\ workoutName' = workoutName
           /\ workoutDescription' = workoutDescription
           /\ selectedExercises' = selectedExercises ]_vars
  /\ [](run.pc # "idle" => Len(run.exercises) > 0)
  /\ [](run.pc = "workouts" => run.req.name # <<>>)
  /\ [](\A k \in 1..Len(workouts) : workouts[k].name # <<>>)

\* a draft with a description and an exercise but a blank name was refused
C12_Witness ==
  /\ alert = ErrorAlert(<<"Please enter a workout name">>)
  /\ Trim(workoutName) = <<>> /\ workoutName # <<>>
  /\ workoutDescription # <<>>
  /\ selectedExercises # <<>>
  /\ workouts = <<>>

\* the table of the k-th insert of a run
TableOfInsert(k) ==
  IF k = 1 THEN "workouts" ELSE IF k % 2 = 0 THEN "workout_exercises" ELSE "sets"

\* C18: the inserts of a createWorkout run are issued one at a time: the one
\* in flight is issued after all earlier ones have returned without error,
\* the junction insert for draft index i after the workout insert returned
\* the id it carries and after the batches of all indices below i, and the
\* batch for index i after the junction insert for index i returned the id
\* the batch carries.
C18_InsertsSequential ==
  /\ \A k \in 1..Len(log) : log[k].table = TableOfInsert(k)
  /\ run.pc # "idle" =>
        /\ \A k \in 1..Len(log) : log[k].error = Null
        /\ run.pc = TableOfInsert(Len(log) + 1)
  /\ run.pc = "workouts" => Len(log) = 0 /\ run.workoutData = Null
  /\ run.pc = "workout_exercises" =>
        /\ Len(log) = 1 + 2 * run.i
        /\ run.workoutData = Some(NewWorkoutId)
        /\ Len(workouts) = NewWorkoutId
        /\ run.req.workout_id = NewWorkoutId
        /\ run.req.order = run.i
        /\ Len(workout_exercises) = base.sizes.workout_exercises + run.i
  /\ run.pc = "sets" =>
        /\ Len(log) = 2 + 2 * run.i
        /\ Len(workout_exercises) = base.sizes.workout_exercises + run.i + 1
        /\ run.weData = Some(Len(workout_exercises))
        /\ LastOf(workout_exercises).workout_id = NewWorkoutId
        /\ LastOf(workout_exercises).order = run.i
        /\ \A k \in 1..Len(run.req) :
              run.req[k].workout_exercise_id = LastOf(workout_exercises).id

\* the junction insert of the second selection is in flight
C18_Witness ==
  /\ run.pc = "workout_exercises"
  /\ run.i = 1
  /\ Len(log) = 3
  /\ Len(sets) > base.sizes.sets

\* C20: while an insert of a createWorkout run is in flight, every exercise
\* selection of the draft the run was started with has at least one set.
C20_NoEmptySelectionSubmitted ==
  run.pc # "idle" => \A k \in 1..Len(base.draft) : Len(base.draft[k].sets) >= 1

\* the composer with the reps fields of the draft: exercises are selected
\* with their default set and the reps of a set are typed (lines 192-200:
\* updateSet(index, setIndex, 'reps', parseInt(value) || 0))
NextDraft ==
  \/ \E text \in NameInputs : setWorkoutName(text)
  \/ \E e \in ExerciseIds : addExerciseToWorkout(e)
  \/ createWorkout
  \/ \E ok \in BOOLEAN : workoutInsertReturns(ok)
  \/ \E ok \in BOOLEAN : workoutExerciseInsertReturns(ok)
  \/ \E ok \in BOOLEAN : setsInsertReturns(ok)
  \/ \E exerciseIndex \in Positions, setIndex \in 1..MaxSets, value \in RepsTexts :
        updateSet(exerciseIndex, setIndex, "reps", OrZero(ParseInt(value)))

SpecDraft == Init /\ [][NextDraft]_vars

\* C22: every stored set has reps >= 0.
C22_RepsNonNegative ==
  \A j \in 1..Len(sets) : sets[j].reps >= 0

Distinct(ids) == \A a, b \in 1..Len(ids) : ids[a] = ids[b] => a = b

\* C23: no two selections of the draft have the same exercise_id, neither
\* have two selections of the array a createWorkout run iterates over, and
\* the junction row a run asks to insert never has the (workout_id,
\* exercise_id) of a stored junction row.
C23_ExerciseOncePerWorkout ==
  /\ Distinct([k \in 1..Len(selectedExercises) |-> selectedExercises[k].exercise_id])
  /\ Distinct([k \in 1..Len(run.exercises) |-> run.exercises[k].exercise_id])
  /\ run.pc = "workout_exercises" => WorkoutExerciseAccepted(run.req)
  /\ Distinct([k \in 1..Len(workout_exercises) |->
                 <<workout_exercises[k].workout_id, workout_exercises[k].exercise_id>>])

\* a draft with the squat selected before the bench press was composed
C23_Witness ==
  /\ RunSucceeded
  /\ Len(base.draft) = 2
  /\ base.draft[1].exercise_id = "squat"
  /\ base.draft[2].exercise_id = "bench"
  /\ Len(workout_exercises) = 2

\* the number of junction rows the current or last run has stored
StoredSelections == Len(workout_exercises) - base.sizes.workout_exercises

\* C24: the rows of the current or last run are a prefix of the draft it
\* was started with: junction rows for the first j selections in draft
\* order with order = index, all sets of every selection but the last of
\* them, all or none of the sets of the last, and no set without its
\* junction row.
C24_StoredPrefixOfDraft ==
  /\ StoredSelections <= Len(base.draft)
  /\ \A k \in 1..StoredSelections :
        /\ NewWorkoutExercise(k).workout_id = NewWorkoutId
        /\ NewWorkoutExercise(k).order = k - 1
        /\ NewWorkoutExercise(k).exercise_id = base.draft[k].exercise_id
        /\ Cardinality(SetsUnder(NewWorkoutExercise(k).id)) \in
              IF k < StoredSelections THEN {Len(base.draft[k].sets)}
              ELSE {0, Len(base.draft[k].sets)}
  /\ \A j \in 1..Len(sets) : sets[j].workout_exercise_id \in 1..Len(workout_exercises)

\* the last run failed; before / after its workout row was stored
CleanFailure == run.pc = "idle" /\ Len(log) = 1 /\ log[1].error # Null
PartialFailure == run.pc = "idle" /\ Len(log) >= 2 /\ LastOf(log).error # Null

\* what createWorkout shows when its first insert fails (lines 117, 157-158)
CleanFailureAlerts == { ErrorAlert(error.message) : error \in InsertErrors }

\* C13: what createWorkout shows when an insert fails after the workout row
\* was stored differs from everything it shows when the first insert fails.
C13_PartialFailureDistinct ==
  PartialFailure => alert \notin CleanFailureAlerts

----------------------------------------------------------------------------
(* Completion *)

\* C14: a workout whose completed_at is non-null in the store keeps a
\* non-null completed_at in every later store state, and every completion
\* update that is sent carries a timestamp.
C14_CompletionOneWay ==
  /\ [][ /\ Len(workouts') = Len(workouts)
         /\ \A w \in 1..Len(workouts) :
              workouts[w].completed_at # Null => workouts'[w].completed_at # Null ]_vars
  /\ [](\A p \in pending : p.op = "complete" => p.value.at # Null)

\* the workout was completed by one completion update and another one has
\* been executed on it since
C14_Witness ==
  /\ workouts[1].completed_at # Null
  /\ \E p \in pending :
        /\ p.op = "complete" /\ p.phase = "replied" /\ p.error = Null
        /\ p.value.at # workouts[1].completed_at

\* C15: once completed_at of a workout is non-null in the store, no later
\* store state has a different completed_at for it.
C15_CompletedAtWrittenOnce ==
  [][ \A w \in 1..Len(workouts) :
        workouts[w].completed_at # Null =>
          workouts'[w].completed_at = workouts[w].completed_at ]_vars

----------------------------------------------------------------------------
(* Previous performance of a workout with two exercises: an earlier workout
   of the same user logged both of them *)

\* the sets per junction row: rows 1, 2 are bench and squat of the earlier
\* workout, rows 3, 4 bench and squat of the viewed one
PreviousShapes ==
  { shape \in [1..4 -> 0..MaxSets] : shape[1] >= 1 /\ shape[2] >= 1 }

\* set number nth of junction row k has weight 10k + nth and reps 5 + k
ShapedSets(shape) ==
  LET owner == [j \in 1..SumSeq(shape) |->
                  CHOOSE k \in 1..Len(shape) :
                     /\ SumSeq(SubSeq(shape, 1, k - 1)) < j
                     /\ j <= SumSeq(SubSeq(shape, 1, k))]
  IN [j \in 1..SumSeq(shape) |->
        [id |-> j, workout_exercise_id |-> owner[j],
         weight |-> Some(10 * owner[j] + j - SumSeq(SubSeq(shape, 1, owner[j] - 1))),
         reps |-> 5 + owner[j], completed |-> FALSE,
         created_at |-> IF owner[j] <= 2 THEN 4 ELSE 8]]

InitPrevious ==
  \E shape \in PreviousShapes :
    /\ workouts = [i \in 1..2 |->
                     [id |-> i, user_id |-> UserId, name |-> <<"A">>,
                      created_at |-> 4 * i - 3, completed_at |-> Null]]
    /\ workout_exercises =
         [k \in 1..4 |->
            [id |-> k, workout_id |-> (k + 1) \div 2,
             exercise_id |-> ExerciseAt[2 - (k % 2)],
             order |-> 1 - (k % 2), created_at |-> IF k <= 2 THEN 1 + k ELSE 3 + k]]
    /\ sets = ShapedSets(shape)
    /\ clock = 9
    /\ DetailClosed(2)
    /\ InitComposer
    /\ HistoryUnused

SpecPrevious == InitPrevious /\ [][NextLookup]_vars

\* C16: when the workout and its exercises were loaded, the lookups resolve
\* and the screen shows the workout with all its exercises and sets, without
\* an error; an exercise whose lookup failed has the empty previous sequence
\* (the placeholder at every set), every other exercise of the workout has
\* the data its lookup returned.
C16_LookupFailureIsolated ==
  [][ \A failed \in SUBSET ExerciseIds :
        fetchPublishes(failed) =>
          /\ workout' # Null
          /\ workout'[1].id = workoutId
          /\ workout'[1].exercises = fetch.exercises
          /\ ~detailLoading'
          /\ detailAlert' = detailAlert
          /\ \A e \in failed : previousByExerciseId'[e] = <<>>
          /\ \A k \in 1..Len(fetch.exercises), setIndex \in 0..MaxSets :
                fetch.exercises[k].id \in failed =>
                  prevText(workout[1].exercises[k], setIndex)' = "-"
          /\ \A e \in ViewedExercises(fetch.exercises) \ failed :
                previousByExerciseId'[e] \in PreviousData(e, fetch.workoutData) ]_vars

\* the view shows bench and squat with their sets; the earlier workout logged
\* sets for both; the bench lookup failed and the squat lookup did not
C16_Witness ==
  /\ DetailShown
  /\ detailAlert = NoAlert
  /\ Len(workout[1].exercises) = 2
  /\ \A k \in 1..2 : Len(workout[1].exercises[k].sets) >= 1
  /\ \A e \in ExerciseIds :
        /\ PreviousCandidates(e, workout[1]) # {}
        /\ \A k \in PreviousCandidates(e, workout[1]) : PreviousSetsOf(k, FALSE) # <<>>
  /\ previousByExerciseId["bench"] = <<>>
  /\ previousByExerciseId["squat"] # <<>>

----------------------------------------------------------------------------
(* Rendering the progress of the detail screen *)

MaxRenders == 2

\* how often the current view has been rendered
RendersOfView ==
  IF rendered # Null /\ workout # Null /\ rendered[1].view = workout[1]
    THEN rendered[1].renders ELSE 0

\* render with a getCompletedSets that takes the completed sets out of the
\* view's arrays while counting them
renderSplicing ==
  /\ DetailShown
  /\ RendersOfView < MaxRenders
  /\ rendered' = Some([view |-> workout[1], renders |-> RendersOfView + 1,
                       totalSets |-> getTotalSets,
                       completedSets |-> getCompletedSets,
                       percent |-> MathRound(progressPercentage)])
  /\ workout' = Some([workout[1] EXCEPT !.exercises =
                        [k \in 1..Len(@) |->
                           [@[k] EXCEPT !.sets = SelectSeq(@, LAMBDA st : ~st.completed)]]])
  /\ UNCHANGED <<storeVars, workoutId, screen, detailLoading, updating, fetch,
                 pending, detailAlert, calls, previousByExerciseId>>
  /\ UNCHANGED offDetail

\* lines 284-302, 330: the component function runs with the workout loaded
render ==
  /\ DetailShown
  /\ RendersOfView < MaxRenders
  /\ rendered' = Some([view |-> workout[1], renders |-> RendersOfView + 1,
                       totalSets |-> getTotalSets,
                       completedSets |-> getCompletedSets,
                       percent |-> MathRound(progressPercentage)])
  /\ UNCHANGED <<storeVars, workoutId, screen, workout, detailLoading, updating, fetch,
                 pending, detailAlert, calls, previousByExerciseId>>
  /\ UNCHANGED offDetail

NextRender ==
  \/ openDetail
  \/ goBack
  \/ \E ok \in BOOLEAN : fetchWorkoutReturns(ok)
  \/ \E ok \in BOOLEAN : fetchExercisesReturns(ok)
  \/ \E failed \in SUBSET ExerciseIds : fetchPublishes(failed)
  \/ \E setId \in SetIds, completed \in BOOLEAN : toggleSetCompletion(setId, completed)
  \/ \E p \in pending, ok \in BOOLEAN : storeExecutes(p, ok)
  \/ \E p \in pending : setEditReturns(p)
  \/ render

SpecRender == InitDetail /\ [][NextRender]_vars

----------------------------------------------------------------------------
(* The previous-performance lookups one by one.  fetchPublishes takes the
   completions of all lookups and the publication as one step; here every
   lookup of the Promise.all of lines 98-130 completes in a step of its own
   and writes its own key of prevMap. *)

\* prevMap while the lookups run: no key yet for an exercise whose lookup
\* has not completed
PrevMapOf(f) ==
  IF "prevMap" \in DOMAIN f THEN f.prevMap ELSE [e \in ExerciseIds |-> Null]

\* lines 100-128: the lookup of exercise e completes
previousLookupReturns(e, ok) ==
  /\ fetch.pc = "previous"
  /\ e \in ViewedExercises(fetch.exercises)
  /\ PrevMapOf(fetch)[e] = Null
  /\ \E data \in IF ok THEN PreviousData(e, fetch.workoutData) ELSE {<<>>} :
       fetch' = [pc |-> "previous", workoutData |-> fetch.workoutData,
                 exercises |-> fetch.exercises,
                 prevMap |-> [PrevMapOf(fetch) EXCEPT ![e] = Some(data)]]
  /\ UNCHANGED <<storeVars, workoutId, rendered, previousByExerciseId, calls, screen, workout,
                 detailLoading, updating, pending, detailAlert>>
  /\ UNCHANGED offDetail

\* lines 132-153 run without `await` before Promise.all: the state is
\* published with the keys written so far
promiseAllResolvesUnawaited ==
  /\ fetch.pc = "previous"
  /\ previousByExerciseId' =
       [e \in ExerciseIds |-> IF PrevMapOf(fetch)[e] = Null THEN <<>>
                                ELSE PrevMapOf(fetch)[e][1]]
  /\ workout' = Some([id |-> fetch.workoutData.id,
                      user_id |-> fetch.workoutData.user_id,
                      created_at |-> fetch.workoutData.created_at,
                      completed_at |-> fetch.workoutData.completed_at,
                      exercises |-> fetch.exercises])
  /\ detailLoading' = FALSE
  /\ fetch' = [pc |-> "idle"]
  /\ UNCHANGED <<storeVars, workoutId, rendered, calls, screen, updating, pending, detailAlert>>
  /\ UNCHANGED offDetail

\* lines 98, 130-153: Promise.all resolves when every lookup has completed;
\* the state is published
promiseAllResolves ==
  /\ fetch.pc = "previous"
  /\ \A e \in ViewedExercises(fetch.exercises) : PrevMapOf(fetch)[e] # Null
  /\ previousByExerciseId' =
       [e \in ExerciseIds |-> IF PrevMapOf(fetch)[e] = Null THEN <<>>
                                ELSE PrevMapOf(fetch)[e][1]]
  /\ workout' = Some([id |-> fetch.workoutData.id,
                      user_id |-> fetch.workoutData.user_id,
                      created_at |-> fetch.workoutData.created_at,
                      completed_at |-> fetch.workoutData.completed_at,
                      exercises |-> fetch.exercises])
  /\ detailLoading' = FALSE
  /\ fetch' = [pc |-> "idle"]
  /\ UNCHANGED <<storeVars, workoutId, rendered, calls, screen, updating, pending, detailAlert>>
  /\ UNCHANGED offDetail

NextJoin ==
  \/ openDetail
  \/ goBack
  \/ \E ok \in BOOLEAN : fetchWorkoutReturns(ok)
  \/ \E ok \in BOOLEAN : fetchExercisesReturns(ok)
  \/ \E e \in ExerciseIds, ok \in BOOLEAN : previousLookupReturns(e, ok)
  \/ promiseAllResolves

SpecJoin == InitPrevious /\ [][NextJoin]_vars

\* C21: the lookups complete in any order; a completing lookup writes the
\* entry of its own exercise with a result of that exercise and leaves the
\* other entries alone; nothing is published while a lookup is outstanding,
\* and what is published holds for every exercise the result of its lookup.
C21_LookupsJoined ==
  /\ [](fetch.pc = "previous" =>
          /\ workout = Null /\ detailLoading
          /\ previousByExerciseId = NoPrevious
          /\ \A e \in ExerciseIds :
                PrevMapOf(fetch)[e] # Null =>
                  /\ e \in ViewedExercises(fetch.exercises)
                  /\ PrevMapOf(fetch)[e][1] \in PreviousOutcomes(e, fetch.workoutData))
  /\ [][ (fetch.pc = "previous" /\ fetch'.pc = "previous") =>
           \A e \in ExerciseIds :
              PrevMapOf(fetch)[e] # Null => PrevMapOf(fetch')[e] = PrevMapOf(fetch)[e] ]_vars
  /\ [][ (fetch.pc = "previous" /\ workout' # Null) =>
           \A e \in ViewedExercises(fetch.exercises) :
              /\ PrevMapOf(fetch)[e] # Null
              /\ previousByExerciseId'[e] = PrevMapOf(fetch)[e][1] ]_vars

\* the lookup of the second exercise has completed with that exercise's
\* earlier sets while the lookup of the first is outstanding
C21_Witness ==
  /\ fetch.pc = "previous"
  /\ Len(fetch.exercises) = 2
  /\ fetch.exercises[1].id = "bench"
  /\ PrevMapOf(fetch)["bench"] = Null
  /\ PrevMapOf(fetch)["squat"] # Null
  /\ PrevMapOf(fetch)["squat"][1] # <<>>

----------------------------------------------------------------------------
(* Filter changes on the history screen *)

\* C26: when the last outstanding fetchWorkoutHistory call returns with
\* rows, the list shown is the result of the query for the filter that is
\* selected.
C26_ListMatchesFilter ==
  [][ ( /\ Len(historyFetches) = 1
        /\ historyFetches[1].phase = "replied"
        /\ historyFetches[1].error = Null
        /\ historyFetches' = <<>> ) =>
          IdsOf(historyWorkouts') = Matching(filter') ]_vars

----------------------------------------------------------------------------
(* A composed workout in the detail view *)

\* CreateWorkoutScreen.tsx line 154: OK on the success dialog navigates Home;
\* HomeScreen.tsx line 64: a workout of the list is opened, the detail screen
\* is mounted (lines 36-48) and the effect calls fetchWorkoutDetails
openWorkout(id) ==
  /\ alert.kind = "Success"
  /\ screen = "away"
  /\ id \in 1..Len(workouts)
  /\ workoutId' = id
  /\ screen' = "detail"
  /\ workout' = Null
  /\ detailLoading' = TRUE
  /\ updating' = FALSE
  /\ fetch' = [pc |-> "workout"]
  /\ detailAlert' = NoAlert
  /\ previousByExerciseId' = NoPrevious
  /\ UNCHANGED <<storeVars, rendered, calls, pending>>
  /\ UNCHANGED offDetail

\* a workout is composed, its sets are added and their reps typed, and the
\* created workout is opened from the home screen
NextView ==
  \/ \E text \in NameInputs : setWorkoutName(text)
  \/ \E e \in ExerciseIds : addExerciseToWorkout(e)
  \/ \E exerciseIndex \in Positions : addSetToExercise(exerciseIndex)
  \/ \E exerciseIndex \in Positions, setIndex \in 1..MaxSets, value \in RepsTexts :
        updateSet(exerciseIndex, setIndex, "reps", OrZero(ParseInt(value)))
  \/ createWorkout
  \/ \E ok \in BOOLEAN : workoutInsertReturns(ok)
  \/ \E ok \in BOOLEAN : workoutExerciseInsertReturns(ok)
  \/ \E ok \in BOOLEAN : setsInsertReturns(ok)
  \/ \E id \in 1..MaxWorkouts : openWorkout(id)
  \/ \E ok \in BOOLEAN : fetchWorkoutReturns(ok)
  \/ \E ok \in BOOLEAN : fetchExercisesReturns(ok)
  \/ \E failed \in SUBSET ExerciseIds : fetchPublishes(failed)

SpecView == Init /\ [][NextView]_vars

\* the {weight, reps} of the sets the view lists for its exercise k
ViewedSets(k) ==
  [j \in 1..Len(workout[1].exercises[k].sets) |->
     [weight |-> workout[1].exercises[k].sets[j].weight,
      reps |-> workout[1].exercises[k].sets[j].reps]]

\* C27: after a successful composition whose draft was not edited while the
\* run was in flight, the sets the detail view lists for each exercise are
\* the sets of that exercise's draft in the draft's order: set k of the view
\* is the k-th set of the draft.
C27_ViewInDraftOrder ==
  (alert.kind = "Success" /\ selectedExercises = base.draft /\ workout # Null) =>
     /\ Len(workout[1].exercises) = Len(selectedExercises)
     /\ \A k \in 1..Len(workout[1].exercises) :
           ViewedSets(k) = selectedExercises[k].sets

----------------------------------------------------------------------------
(* A set edit the store rejects *)

\* C28: when the store rejects a set edit, the rejection leaves the stored
\* sets and the view as they are, and the handler's continuation shows the
\* error's message, leaves every set of the view as it is and issues no
\* further call: the rejected call is gone and nothing is sent in its place.
C28_RejectedEditLeavesView ==
  [][ \A p \in pending :
        (p.op \in SetEdits) =>
          /\ (p.phase = "sent" /\ \E q \in pending' \ pending :
                  q = [p EXCEPT !.phase = "replied", !.error = q.error]
                  /\ q.error # Null) =>
                 /\ sets' = sets
                 /\ workout' = workout
          /\ (JustReturned(p) /\ p.error # Null) =>
                 /\ workout' = workout
                 /\ detailAlert' = ErrorAlert(p.error[1].message)
                 /\ pending' = pending \ {p}
                 /\ calls' = calls
                 /\ storeVars' = storeVars ]_vars

\* a rejected toggle of set 1 has returned: the alert shows its error, the
\* view and the store still hold the set as not completed
C28_Witness ==
  /\ screen = "detail"
  /\ workout # Null
  /\ ~updating
  /\ detailAlert = ErrorAlert(StoreError("toggle", 1).message)
  /\ \E st \in InView(workout[1], 1) : ~st.completed
  /\ ~sets[1].completed
  /\ pending = {}

----------------------------------------------------------------------------
(* One createWorkout run at a time *)

\* the workout inserts the run has been answered for without an error
WorkoutsInserted ==
  Len(SelectSeq(log, LAMBDA entry : entry.table = "workouts" /\ entry.error = Null))

\* C29: loading is true exactly while a createWorkout run is in flight; it
\* is set by the step that starts the run, before any store call, and
\* cleared by the step that ends the run with the success or the error
\* dialog; while it is true no run starts (the captured draft and the
\* workout request stay those of the run in flight), and a run creates at
\* most one workout row.
C29_OneRunAtATime ==
  /\ [](loading <=> run.pc # "idle")
  /\ [](/\ WorkoutsInserted <= 1
        /\ run.pc # "idle" => Len(workouts) = base.sizes.workouts + WorkoutsInserted)
  /\ [][ loading =>
           /\ base' = base
           /\ run'.pc = "workouts" => (run.pc = "workouts" /\ run'.req = run.req) ]_vars
  /\ [][ (~loading /\ loading') =>
           /\ run.pc = "idle" /\ run'.pc = "workouts"
           /\ log' = <<>>
           /\ storeVars' = storeVars ]_vars
  /\ [][ (loading /\ ~loading') =>
           /\ run'.pc = "idle"
           /\ alert'.kind \in {"Success", "Error"} ]_vars

\* a run is in flight with its workout row stored and the draft still has a
\* name: createWorkout, if it could be called again, would start a second run
C29_Witness ==
  /\ loading
  /\ run.pc = "sets"
  /\ Len(workouts) = base.sizes.workouts + 1
  /\ Trim(workoutName) # <<>>

----------------------------------------------------------------------------
(* The busy flags.  Two sessions: a workout is composed and then opened from
   the home screen, where its sets are edited; or the history screen is
   mounted over a store that holds workouts already. *)

InitLive ==
  \/ Init
  \/ /\ \E done \in BOOLEAN :
           ProfileStore(<<[user_id |-> UserId, done |-> done, total |-> 1,
                           completed |-> 0]>>)
     /\ DetailClosed(0)
     /\ HistoryMounted
     /\ InitComposer

NextLive ==
  \/ \E text \in NameInputs : setWorkoutName(text)
  \/ \E e \in ExerciseIds : addExerciseToWorkout(e)
  \/ createWorkout
  \/ \E ok \in BOOLEAN : workoutInsertReturns(ok)
  \/ \E ok \in BOOLEAN : workoutExerciseInsertReturns(ok)
  \/ \E ok \in BOOLEAN : setsInsertReturns(ok)
  \/ \E id \in 1..MaxWorkouts : openWorkout(id)
  \/ goBack
  \/ \E ok \in BOOLEAN : fetchWorkoutReturns(ok)
  \/ \E ok \in BOOLEAN : fetchExercisesReturns(ok)
  \/ \E failed \in SUBSET ExerciseIds : fetchPublishes(failed)
  \/ \E setId \in SetIds, completed \in BOOLEAN : toggleSetCompletion(setId, completed)
  \/ \E setId \in SetIds : updateSetReps(setId, Num(5))
  \/ \E setId \in SetIds : updateSetWeight(setId, Num(5))
  \/ \E p \in pending, ok \in BOOLEAN : storeExecutes(p, ok)
  \/ \E p \in pending : setEditReturns(p)
  \/ \E f \in Filters : setFilter(f)
  \/ \E i \in 1..MaxFetches, ok \in BOOLEAN : historyQueryExecutes(i, ok)
  \/ \E i \in 1..MaxFetches : fetchWorkoutHistoryReturns(i)

\* every store call returns, with a result or an error, and the handler
\* that awaits it is resumed
StoreCallsReturn ==
  /\ WF_vars(\E ok \in BOOLEAN : workoutInsertReturns(ok))
  /\ WF_vars(\E ok \in BOOLEAN : workoutExerciseInsertReturns(ok))
  /\ WF_vars(\E ok \in BOOLEAN : setsInsertReturns(ok))
  /\ WF_vars(\E ok \in BOOLEAN : fetchWorkoutReturns(ok))
  /\ WF_vars(\E ok \in BOOLEAN : fetchExercisesReturns(ok))
  /\ WF_vars(\E failed \in SUBSET ExerciseIds : fetchPublishes(failed))
  /\ WF_vars(\E p \in pending, ok \in BOOLEAN : storeExecutes(p, ok))
  /\ WF_vars(\E p \in pending : setEditReturns(p))
  /\ WF_vars(\E i \in 1..MaxFetches, ok \in BOOLEAN : historyQueryExecutes(i, ok))
  /\ WF_vars(\E i \in 1..MaxFetches : fetchWorkoutHistoryReturns(i))

SpecLive == InitLive /\ [][NextLive]_vars /\ StoreCallsReturn

\* C30: provided every store call returns, each busy flag is released:
\* loading of the composer after a createWorkout run, updating of the detail
\* screen after a set edit and its loading after the load (while the screen
\* is mounted), and loading of the history screen after the fetch its
\* mount has issued.
C30_BusyFlagsReleased ==
  /\ loading ~> ~loading
  /\ (screen = "detail" /\ updating) ~> (~updating \/ screen = "away")
  /\ (screen = "detail" /\ detailLoading) ~> (~detailLoading \/ screen = "away")
  /\ (historyLoading /\ historyFetches # <<>>) ~> ~historyLoading

\* a set edit the store rejected has returned on the mounted screen of a
\* composed workout: updating is false again
C30_Witness ==
  /\ alert.kind = "Success"
  /\ screen = "detail"
  /\ workout # Null
  /\ ~detailLoading
  /\ ~updating
  /\ ~loading
  /\ detailAlert = ErrorAlert(StoreError("reps", 1).message)

====
